---------------------------- MODULE Spec2Model ----------------------------
(***************************************************************************)
(* A model of reproduce-mr: the reproduction of the TDX measurement        *)
(* registers (MRTD, RTMR0..2) from firmware, kernel, initrd, memory size,  *)
(* CPU count and command line.                                             *)
(*                                                                         *)
(* Conventions.                                                            *)
(*  - A Go []byte buffer is a sequence of integers in 0..255.              *)
(*  - SHA-384 cannot be evaluated here; a digest is the term               *)
(*    [alg, bytes, input] that records the exact byte stream that was      *)
(*    hashed (collision freedom is assumed, nothing else).  A 48-byte      *)
(*    value that is either literal bytes or a digest is a "chunk"; the     *)
(*    stream written to a hasher is a sequence of chunks in which          *)
(*    adjacent literal chunks are merged, so that two streams are equal    *)
(*    exactly when the bytes written are equal.                            *)
(*  - A Go uint32/uint64 is held as its little-endian bytes and all        *)
(*    arithmetic on it wraps at that width.                                *)
(***************************************************************************)
EXTENDS Integers, Sequences, FiniteSets, TLC

VARIABLES
    \* measureLog (src/internal/mr.go:113-125)
    log,        \* the event log handed to measureLog
    logIdx,     \* number of entries folded so far (the range index i)
    mr,         \* the running register value (var mr [48]byte)
    logPc,      \* "loop" | "done"
    \* tdvfMetadata.computeMrtd (src/internal/mr.go:338-404)
    fw,           \* the firmware bytes
    sections,     \* m.sections, in descriptor order
    mrtdVariant,  \* the variant argument of the running call
    mrtdSec,      \* index of the section the outer loop is at (1-based)
    mrtdPage,     \* the page loop variable
    mrtdPc,       \* "idle" | "section" | "add" | "extend" | "done" | "panic"
    mrtdH,        \* the writes made to the running SHA-384 state h, in order
    mrtdOut,      \* per variant: whether a call returned, and what it hashed
    \* GenerateTablesQemu2 / GenerateTablesQemu (src/internal/acpi.go:214-424)
    acpiGen,      \* which generator runs: 2 = GenerateTablesQemu2, 1 = GenerateTablesQemu
    memorySize,   \* the memorySize argument (uint64, MiB)
    cpuCount,     \* the cpuCount argument
    acpiPc,       \* "idle" | "template" | "find" | "patch" | "rsdp" | "loader"
                  \* | "pad" | "return" | "done" | "error" | "panic"
    tpl,          \* the decoded template, patched in place
    acpiTabs,     \* the tables found so far, in the order they are searched
    rsdp,         \* the RSDP blob
    ldr,          \* the table loader command blob
    acpiCmd,      \* number of loader commands appended so far
    \* measureTdxQemuTdHob (src/internal/mr.go:37-111)
    hobMem,           \* the memorySize argument (uint64, MiB)
    hobMeta,          \* the meta argument: nil, or metadata with sections
    hobPc,            \* "idle" | "base" | "handoff" | "fixed" | "split" | "end"
                      \* | "measure" | "done"
    tdHob,            \* the TD HOB buffer
    tdHobBaseAddr,    \* the TD HOB base address
    remainingMemory,  \* memory not yet given to a resource descriptor
    hobK,             \* number of fixed resource descriptors appended
    hobOut,           \* the measurement returned
    \* MeasureTdxQemu (src/internal/mr.go:608-688), which also uses fw,
    \* sections, mrtdVariant, mrtdH, memorySize and cpuCount above
    kernelData,     \* the kernel image
    initrdData,     \* the initrd
    kernelCmdline,  \* the kernel command line (ASCII)
    tcbver,         \* the -tcbver flag of main
    cpuCountUint,   \* the -cpu flag of main (a Go uint)
    runPc,          \* "idle" | "main" | "parse" | "mrtd" | "tdhob" | "acpi" | "rtmr0"
                    \* | "rtmr1" | "rtmr2" | "done" | "error" | "panic" | "hang"
    tdHobHash,      \* the TD HOB digest
    acpiHashes,     \* the digests of the ACPI tables, the RSDP and the loader
    rtmr0Log,       \* the RTMR0 event log
    measurements,   \* the TdxMeasurements being filled in
    \* MeasureTdxQemuKernelImageData (src/internal/mr.go:158-266)
    kernData,    \* the kernelData argument
    kernInitRd,  \* the initRdSize argument (uint32)
    kernMem,     \* the memSize argument (uint64, MiB)
    kernAcpi,    \* the acpiDataSize argument (uint32)
    kernKd,      \* kd, the mutable copy of the kernel data
    kernMax,     \* initrdMax (uint32)
    kernPc,      \* "idle" | "check" | "header" | "initrd" | "store" | "hash"
                 \* | "done" | "error"
    kernOut,     \* what the call returned: digest or error
    kernCalls,   \* the patched bytes of the earlier calls, oldest first
    \* main's output (src/main.go:115-117, 186-210), CalculateMrAggregated and
    \* CalculateMrImage (src/internal/mr.go:524-548)
    mrkpFlag,            \* the -mrkp flag as given
    mrKeyProvider,       \* the string main and CalculateMrAggregated work on
    outMeasurements,     \* the measurements the digests are computed from
    mrKeyProviderBytes,  \* the decoded key provider
    outH,                \* the writes made to the running SHA-256 state h
    MrAggregated,        \* the mr_aggregated string
    MrImage,             \* the mr_image string
    outPc,               \* "idle" | "alias" | "trim" | "decode" | "aggregated"
                         \* | "image" | "done" | "panic"
    \* parseTdvfMetadata (src/internal/mr.go:409-514)
    parseFw,      \* the fw argument
    parseBase,    \* where tables starts in fw (tables := fw[base : base+tablesLen])
    parseOffset,  \* offset, an index into tables during the walk
    parseData,    \* data, as the Go indices <<lo, hi>> of fw[lo:hi]
    parsePc,      \* "idle" | "footer" | "walk" | "entry" | "descriptor" | "ok" | "error" | "panic"
    parseOut      \* what the call returned

logVars == <<log, logIdx, mr, logPc>>
mrtdVars == <<fw, sections, mrtdVariant, mrtdSec, mrtdPage, mrtdPc, mrtdH, mrtdOut>>
acpiVars ==
    <<acpiGen, memorySize, cpuCount, acpiPc, tpl, acpiTabs, rsdp, ldr, acpiCmd>>

hobVars ==
    <<hobMem, hobMeta, hobPc, tdHob, tdHobBaseAddr, remainingMemory, hobK, hobOut>>

runVars ==
    <<kernelData, initrdData, kernelCmdline, tcbver, cpuCountUint, runPc, tdHobHash,
      acpiHashes, rtmr0Log, measurements>>

kernVars ==
    <<kernData, kernInitRd, kernMem, kernAcpi, kernKd, kernMax, kernPc, kernOut,
      kernCalls>>

\* The functions modelled on their own after the pipeline.
outVars ==
    <<mrkpFlag, mrKeyProvider, outMeasurements, mrKeyProviderBytes, outH,
      MrAggregated, MrImage, outPc>>

parseVars == <<parseFw, parseBase, parseOffset, parseData, parsePc, parseOut>>

restVars == <<kernVars, outVars, parseVars>>

vars == <<logVars, mrtdVars, acpiVars, hobVars, runVars, restVars>>

\* What the actions of one component leave alone.
notLogVars == <<mrtdVars, acpiVars, hobVars, runVars, restVars>>
notMrtdVars == <<logVars, acpiVars, hobVars, runVars, restVars>>
notAcpiVars == <<logVars, mrtdVars, hobVars, runVars, restVars>>
notHobVars == <<logVars, mrtdVars, acpiVars, runVars, restVars>>
notKernVars == <<logVars, mrtdVars, acpiVars, hobVars, runVars, outVars, parseVars>>
notOutVars == <<logVars, mrtdVars, acpiVars, hobVars, runVars, kernVars, parseVars>>
notParseVars == <<logVars, mrtdVars, acpiVars, hobVars, runVars, kernVars, outVars>>

\* The resting state of the components a specification does not exercise.
MrtdIdle ==
    /\ fw = << >> /\ sections = << >> /\ mrtdVariant = 0 /\ mrtdSec = 0
    /\ mrtdPage = 0 /\ mrtdPc = "idle" /\ mrtdH = << >> /\ mrtdOut = << >>

AcpiIdle ==
    /\ acpiGen = 0 /\ memorySize = << >> /\ cpuCount = 0 /\ acpiPc = "idle"
    /\ tpl = << >> /\ acpiTabs = << >> /\ rsdp = << >> /\ ldr = << >>
    /\ acpiCmd = 0

RunIdle ==
    /\ kernelData = << >> /\ initrdData = << >> /\ kernelCmdline = << >>
    /\ tcbver = 0 /\ cpuCountUint = 0 /\ runPc = "idle" /\ tdHobHash = << >> /\ acpiHashes = << >>
    /\ rtmr0Log = << >> /\ measurements = << >>

HobIdle ==
    /\ hobMem = << >> /\ hobMeta = << >> /\ hobPc = "idle" /\ tdHob = << >>
    /\ tdHobBaseAddr = << >> /\ remainingMemory = << >> /\ hobK = 0
    /\ hobOut = << >>

KernIdle ==
    /\ kernData = << >> /\ kernInitRd = << >> /\ kernMem = << >>
    /\ kernAcpi = << >> /\ kernKd = << >> /\ kernMax = << >>
    /\ kernPc = "idle" /\ kernOut = << >> /\ kernCalls = << >>

OutIdle ==
    /\ mrkpFlag = << >> /\ mrKeyProvider = << >> /\ outMeasurements = << >>
    /\ mrKeyProviderBytes = << >> /\ outH = << >> /\ MrAggregated = << >>
    /\ MrImage = << >> /\ outPc = "idle"

ParseIdle ==
    /\ parseFw = << >> /\ parseBase = 0 /\ parseOffset = 0 /\ parseData = << >>
    /\ parsePc = "idle" /\ parseOut = << >>

RestIdle == KernIdle /\ OutIdle /\ ParseIdle

---------------------------------------------------------------------------
(* Primitives                                                              *)

Zeros(n) == [i \in 1..n |-> 0]

\* Machine integers.  The model checker's integers are 32-bit signed, so a Go
\* uintN value is held as its N/8 little-endian bytes (exactly what
\* binary.LittleEndian.PutUintN writes); arithmetic is done byte by byte and
\* wraps at the width of its operands, as Go's unsigned arithmetic does.

\* The w-byte little-endian form of a small natural n (n < 2^31).
LE(n, w) ==
    [i \in 1..w |-> IF i > 4 THEN 0 ELSE (n \div (256 ^ (i - 1))) % 256]

\* 0xHHHHLLLL as a uint32 and 0xAAAABBBBCCCCDDDD as a uint64.
B4(hi, lo) == << lo % 256, lo \div 256, hi % 256, hi \div 256 >>
B8(a, b, c, d) == B4(c, d) \o B4(a, b)

\* uint32(x) / uint64(x): truncate or zero-extend to w bytes.
WResize(a, w) == [i \in 1..w |-> IF i <= Len(a) THEN a[i] ELSE 0]

RECURSIVE WAddFrom(_, _, _, _)
WAddFrom(a, b, i, c) ==
    IF i > Len(a) THEN << >>
    ELSE LET s == a[i] + b[i] + c
         IN  << s % 256 >> \o WAddFrom(a, b, i + 1, s \div 256)

\* a + b and a - b at the width of a (wrapping).
WAdd(a, b) == WAddFrom(a, b, 1, 0)
WSub(a, b) == WAddFrom(a, [i \in 1..Len(a) |-> 255 - b[i]], 1, 1)

RECURSIVE WMulFrom(_, _, _, _)
WMulFrom(a, k, i, c) ==
    IF i > Len(a) THEN << >>
    ELSE LET s == a[i] * k + c
         IN  << s % 256 >> \o WMulFrom(a, k, i + 1, s \div 256)

\* a * k at the width of a (wrapping), for a small factor k.
WMul(a, k) == WMulFrom(a, k, 1, 0)

RECURSIVE WDivFrom(_, _, _, _)
WDivFrom(a, k, i, r) ==
    IF i = 0 THEN << >>
    ELSE LET n == r * 256 + a[i]
         IN  WDivFrom(a, k, i - 1, n % k) \o << n \div k >>

\* a / k (unsigned division) for a small divisor k, and a % k.
WDiv(a, k) == WDivFrom(a, k, Len(a), 0)
\* a < b, a <= b for operands of one width.
WLt(a, b) ==
    \E i \in 1..Len(a) : a[i] < b[i] /\ \A j \in (i + 1)..Len(a) : a[j] = b[j]
WLe(a, b) == a = b \/ WLt(a, b)

\* The value of a as a model integer; defined when a < 2^31.
WIsSmall(a) == (\A i \in 5..Len(a) : a[i] = 0) /\ (Len(a) < 4 \/ a[4] < 128)
WVal(a) ==
    (IF Len(a) >= 1 THEN a[1] ELSE 0) + (IF Len(a) >= 2 THEN a[2] * 256 ELSE 0)
    + (IF Len(a) >= 3 THEN a[3] * 65536 ELSE 0)
    + (IF Len(a) >= 4 THEN a[4] * 16777216 ELSE 0)

WMod(a, k) == WVal(WSub(a, WMul(WDiv(a, k), k)))

\* A literal chunk and a digest chunk.
Raw(b) == [alg |-> "raw", bytes |-> b, input |-> <<>>]
Digest(a, in) == [alg |-> a, bytes |-> <<>>, input |-> in]

\* Number of bytes a chunk stands for.
ChunkLen(c) ==
    IF c.alg = "raw" THEN Len(c.bytes)
    ELSE IF c.alg = "sha256" THEN 32 ELSE 48

\* hash.Hash.Write: append a chunk to the stream held by a hasher.
HashWrite(h, c) ==
    IF c.alg = "raw" /\ c.bytes = <<>> THEN h
    ELSE IF h # <<>> /\ h[Len(h)].alg = "raw" /\ c.alg = "raw"
         THEN [h EXCEPT ![Len(h)] = Raw(h[Len(h)].bytes \o c.bytes)]
         ELSE Append(h, c)

\* sha512.New384() ... h.Sum(nil)
Sum384(h) == Digest("sha384", h)

\* measureSha384 computes a SHA384 of the given blob.
measureSha384(data) == Sum384(HashWrite(<<>>, Raw(data)))

---------------------------------------------------------------------------
(* measureLog: the RTMR fold                                               *)

\* The swapped write order (entry before the register).
ExtendMrSwapped(m, entry) == Sum384(HashWrite(HashWrite(<<>>, entry), m))

\* One iteration of measureLog's loop body:
\*   h := sha512.New384(); h.Write(mr[:]); h.Write(entry); copy(mr[:], h.Sum(...))
ExtendMr(m, entry) == Sum384(HashWrite(HashWrite(<<>>, m), entry))

\* var mr [48]byte
InitMr == Raw(Zeros(48))

\* measureLog as a function of the log (used by MeasureTdxQemu).
RECURSIVE measureLogFrom(_, _, _)
measureLogFrom(m, l, i) ==
    IF i > Len(l) THEN m ELSE measureLogFrom(ExtendMr(m, l[i]), l, i + 1)

measureLog(l) == measureLogFrom(InitMr, l, 1)

\* Entries the log model draws from: the two fixed constants of RTMR0 and
\* the separator digests.
cfvImageHash ==
    <<52, 75, 197, 28, 152, 11, 166, 33, 170, 160, 13, 163, 237, 116, 54, 247,
      214, 229, 73, 25, 125, 254, 105, 149, 21, 223, 162, 198, 88, 61, 149, 230,
      65, 42, 242, 28, 9, 125, 71, 49, 85, 135, 95, 253, 86, 29, 103, 144>>

boot000Hash ==
    <<35, 173, 160, 127, 82, 97, 241, 47, 52, 160, 189, 142, 70, 118, 9, 98,
      214, 180, 213, 118, 164, 22, 241, 254, 161, 198, 75, 198, 86, 177, 210, 142,
      172, 247, 4, 122, 230, 233, 103, 197, 143, 210, 169, 139, 250, 116, 194, 152>>

MaxLogLen == 3

LogEntries ==
    { Raw(cfvImageHash), Raw(boot000Hash), Raw(Zeros(48)),
      measureSha384(<<0, 0, 0, 0>>), measureSha384(<<0, 0>>) }

RECURSIVE SeqsUpTo(_, _)
SeqsUpTo(S, n) ==
    IF n = 0 THEN { <<>> }
    ELSE LET shorter == SeqsUpTo(S, n - 1)
         IN  shorter \cup { Append(s, e) : s \in { t \in shorter : Len(t) = n - 1 }, e \in S }

LogIdle == log = << >> /\ logIdx = 0 /\ mr = InitMr /\ logPc = "idle"

LogInit ==
    /\ MrtdIdle /\ AcpiIdle /\ HobIdle /\ RunIdle /\ RestIdle
    /\ log \in SeqsUpTo(LogEntries, MaxLogLen)
    /\ logIdx = 0
    /\ mr = InitMr
    /\ logPc = "loop"

\* for i, entry := range log { ... }
MeasureLogStep ==
    /\ logPc = "loop"
    /\ logIdx < Len(log)
    /\ mr' = ExtendMr(mr, log[logIdx + 1])
    /\ logIdx' = logIdx + 1
    /\ UNCHANGED <<log, logPc>>
    /\ UNCHANGED notLogVars

\* return mr[:]
MeasureLogReturn ==
    /\ logPc = "loop"
    /\ logIdx = Len(log)
    /\ logPc' = "done"
    /\ UNCHANGED <<log, logIdx, mr>>
    /\ UNCHANGED notLogVars

LogNext == MeasureLogStep \/ MeasureLogReturn

SpecLog == LogInit /\ [][LogNext]_vars

---------------------------------------------------------------------------
(* Claims                                                                  *)

\* The chain H_0 = 0^48, H_{i+1} = SHA384(H_i || e_i), written from the
\* definition of the register value.
Concat2(a, b) ==
    IF a.alg = "raw" /\ b.alg = "raw" THEN << Raw(a.bytes \o b.bytes) >>
    ELSE IF a.alg = "raw" /\ a.bytes = <<>> THEN << b >>
    ELSE IF b.alg = "raw" /\ b.bytes = <<>> THEN << a >>
    ELSE << a, b >>

RECURSIVE ChainH(_, _)
ChainH(l, n) ==
    IF n = 0 THEN Raw([i \in 1..48 |-> 0])
    ELSE Digest("sha384", Concat2(ChainH(l, n - 1), l[n]))

\* C1: measureLog returns H_n with H_0 = 48 zero bytes and
\* H_{i+1} = SHA384(H_i || e_i), folding the entries in list order (after i
\* iterations the register holds H_i); the empty log yields 48 zero bytes.
C1_MeasureLogIsChain ==
    /\ mr = ChainH(log, logIdx)
    /\ logPc = "done" =>
          /\ logIdx = Len(log)
          /\ mr = ChainH(log, Len(log))
          /\ ChunkLen(mr) = 48
          /\ (log = <<>> => mr = Raw([i \in 1..48 |-> 0]))

\* A log of maximal length with two different entries has been folded.
C1_Witness ==
    /\ logPc = "done"
    /\ Len(log) = MaxLogLen
    /\ log[1] # log[2]
    /\ mr.alg = "sha384"

---------------------------------------------------------------------------
(* tdvfMetadata.computeMrtd: the MRTD engine                               *)

attributeMrExtend == 1
attributePageAug == 2
pageSize == 4096
mrExtendGranularity == 256
tdvfSectionTdHob == 2
mrtdVariantTwoPass == 0
mrtdVariantSinglePass == 1

\* type tdvfSection struct: every field in its Go width.
tdvfSection(dataOffset, rawDataSize, memoryAddress, memoryDataSize, secType, attributes) ==
    [ dataOffset |-> dataOffset, rawDataSize |-> rawDataSize,
      memoryAddress |-> memoryAddress, memoryDataSize |-> memoryDataSize,
      secType |-> secType, attributes |-> attributes ]

\* s.attributes & bit != 0, for the two attribute bits (both in the low byte).
HasAttr(s, bit) == (s.attributes[1] \div bit) % 2 = 1

\* numPages := s.memoryDataSize / pageSize
NumPages(s) == WVal(WDiv(s.memoryDataSize, pageSize))

\* cap(fw) of a slice returned by os.ReadFile: the file's size plus the byte
\* kept for the final read at EOF (at least 512).  A slice expression
\* fw[lo:hi] is in range up to the capacity; bytes past the length are zero.
FwCap(f) == IF Len(f) + 1 < 512 THEN 512 ELSE Len(f) + 1

\* "MEM.PAGE.ADD" and "MR.EXTEND" in ASCII.
MemPageAddStr == << 77, 69, 77, 46, 80, 65, 71, 69, 46, 65, 68, 68 >>
MrExtendStr == << 77, 82, 46, 69, 88, 84, 69, 78, 68 >>

\* var buf [128]byte; copy(buf[:n], name); PutUint64(buf[16:24], gpa)
MessageBuf(name, gpa) ==
    [ i \in 1..128 |->
        IF i <= Len(name) THEN name[i]
        ELSE IF i \in 17..24 THEN gpa[i - 16] ELSE 0 ]

\* One h.Write call of computeMrtd.  op names what is written: a PAGE.ADD
\* buffer, an MR.EXTEND buffer or 256 bytes of firmware (DATA, read at off);
\* sec, page and chunk are the loop variables at the time of the call.
MrtdWrite(op, gpa, off, sec, page, chunk) ==
    [ op |-> op, gpa |-> gpa, off |-> off, sec |-> sec, page |-> page, chunk |-> chunk ]

\* The bytes a write hands to the hasher.
WriteBytes(w, f) ==
    IF w.op = "MEM.PAGE.ADD" THEN MessageBuf(MemPageAddStr, w.gpa)
    ELSE IF w.op = "MR.EXTEND" THEN MessageBuf(MrExtendStr, w.gpa)
    ELSE [ j \in 1..mrExtendGranularity |->
             IF w.off + j <= Len(f) THEN f[w.off + j] ELSE 0 ]

RECURSIVE StreamBytesRange(_, _, _, _)
StreamBytesRange(h, f, lo, hi) ==
    IF lo > hi THEN << >>
    ELSE IF lo = hi THEN WriteBytes(h[lo], f)
    ELSE LET mid == (lo + hi) \div 2
         IN  StreamBytesRange(h, f, lo, mid) \o StreamBytesRange(h, f, mid + 1, hi)

\* Everything written to h, as one byte string, and h.Sum(nil).
StreamBytes(h, f) == StreamBytesRange(h, f, 1, Len(h))
MrtdDigest(h, f) == Sum384(HashWrite(<< >>, Raw(StreamBytes(h, f))))

\* s.memoryAddress + page*pageSize (uint64)
PageGpa(s, page) == WAdd(s.memoryAddress, WMul(LE(page, 8), pageSize))

\* memPageAdd := func(s, page): the writes it makes.
memPageAdd(si, page) ==
    LET s == sections[si]
    IN  IF ~HasAttr(s, attributePageAug)
        THEN << MrtdWrite("MEM.PAGE.ADD", PageGpa(s, page), 0, si, page, 0) >>
        ELSE << >>

\* The chunk offset without the page: every page reads the first page's bytes.
ChunkOffsetFirstPage(s, page, i) == WVal(s.dataOffset) + i * mrExtendGranularity

\* chunkOffset := int(s.dataOffset) + int(page*pageSize) + i*mrExtendGranularity
ChunkOffset(s, page, i) == WVal(s.dataOffset) + page * pageSize + i * mrExtendGranularity

\* fw[chunkOffset : chunkOffset+mrExtendGranularity] does not panic.
ChunkInRange(s, page, i) ==
    /\ WLe(s.dataOffset, LE(FwCap(fw), 4))
    /\ ChunkOffset(s, page, i) + mrExtendGranularity <= FwCap(fw)

ChunksPerPage == pageSize \div mrExtendGranularity

\* mrExtend := func(s, page): the writes it makes (header, content per chunk).
mrExtend(si, page) ==
    LET s == sections[si]
    IN  IF HasAttr(s, attributeMrExtend)
        THEN [ k \in 1..(2 * ChunksPerPage) |->
                 LET i == (k - 1) \div 2
                     gpa == WAdd(PageGpa(s, page), LE(i * mrExtendGranularity, 8))
                 IN  IF k % 2 = 1
                     THEN MrtdWrite("MR.EXTEND", gpa, 0, si, page, i)
                     ELSE MrtdWrite("DATA", gpa, ChunkOffset(s, page, i), si, page, i) ]
        ELSE << >>

\* mrExtend(s, page) runs to its end (no chunk read is out of range).
mrExtendInRange(si, page) ==
    LET s == sections[si]
    IN  HasAttr(s, attributeMrExtend) =>
            \A i \in 0..(ChunksPerPage - 1) : ChunkInRange(s, page, i)

\* The case labels of the switch exchanged, and the two-pass case missing
\* (every known variant takes the single-pass order).
IsTwoPassSwapped(v) == v = mrtdVariantSinglePass
IsTwoPassNever(v) == FALSE

\* The switch of computeMrtd: case mrtdVariantTwoPass / case mrtdVariantSinglePass.
IsTwoPass(v) == v = mrtdVariantTwoPass
IsKnownVariant(v) == v \in { mrtdVariantTwoPass, mrtdVariantSinglePass }

\* Inputs.  The firmware image is two pages of position-dependent bytes; the
\* sections are such as parseTdvfMetadata returns (page-aligned address and
\* size, rawDataSize = memoryDataSize when MR_EXTEND is set).
FwPages == 2
FwImage == [ i \in 1..(FwPages * pageSize) |-> ((i - 1) \div 256 + 3 * (i - 1)) % 256 ]

MkSection(off, pages, addr, attr) ==
    tdvfSection(LE(off, 4), LE(IF attr % 2 = 1 THEN pages * pageSize ELSE 0, 4),
                addr, LE(pages * pageSize, 8), LE(0, 4), LE(attr, 4))

MrtdSectionPool ==
    { MkSection(0, 1, B8(0, 0, 128, 0), attr) : attr \in { 0, 1, 3 } }
    \cup { MkSection(0, 2, B8(0, 0, 65480, 16384), attr) : attr \in { 1, 2, 3 } }
    \cup { MkSection(0, 0, B8(0, 0, 128, 0), 1),
           MkSection(pageSize, 2, B8(0, 0, 128, 0), 1) }

MaxSections == 2

MrtdNoOut == [ v \in { mrtdVariantTwoPass, mrtdVariantSinglePass } |-> [ done |-> FALSE, h |-> << >> ] ]

MrtdInit ==
    /\ LogIdle /\ AcpiIdle /\ HobIdle /\ RunIdle /\ RestIdle
    /\ fw = FwImage
    /\ sections \in SeqsUpTo(MrtdSectionPool, MaxSections)
    /\ mrtdVariant \in 0..2
    /\ mrtdSec = 1
    /\ mrtdPage = 0
    /\ mrtdPc = "section"
    /\ mrtdH = << >>
    /\ mrtdOut = MrtdNoOut

\* for _, s := range m.sections { numPages := ...; switch variant {
MrtdSectionBegin ==
    /\ mrtdPc = "section"
    /\ mrtdSec <= Len(sections)
    /\ IsKnownVariant(mrtdVariant)
    /\ mrtdPc' = "add"
    /\ mrtdPage' = 0
    /\ UNCHANGED <<fw, sections, mrtdVariant, mrtdSec, mrtdH, mrtdOut>>
    /\ UNCHANGED notMrtdVars

\* default: panic("unknown MRTD variant")
MrtdUnknownVariant ==
    /\ mrtdPc = "section"
    /\ mrtdSec <= Len(sections)
    /\ ~IsKnownVariant(mrtdVariant)
    /\ mrtdPc' = "panic"
    /\ UNCHANGED <<fw, sections, mrtdVariant, mrtdSec, mrtdPage, mrtdH, mrtdOut>>
    /\ UNCHANGED notMrtdVars

\* memPageAdd(s, page) in either loop.
MrtdPageAdd ==
    /\ mrtdPc = "add"
    /\ mrtdPage < NumPages(sections[mrtdSec])
    /\ mrtdH' = mrtdH \o memPageAdd(mrtdSec, mrtdPage)
    /\ IF IsTwoPass(mrtdVariant)
       THEN mrtdPage' = mrtdPage + 1 /\ mrtdPc' = "add"
       ELSE mrtdPage' = mrtdPage /\ mrtdPc' = "extend"
    /\ UNCHANGED <<fw, sections, mrtdVariant, mrtdSec, mrtdOut>>
    /\ UNCHANGED notMrtdVars

\* The loop over pages that calls memPageAdd ends: the second loop of the
\* two-pass order starts, or (single pass) the section is finished.
MrtdAddLoopEnd ==
    /\ mrtdPc = "add"
    /\ mrtdPage = NumPages(sections[mrtdSec])
    /\ IF IsTwoPass(mrtdVariant)
       THEN mrtdPage' = 0 /\ mrtdPc' = "extend" /\ mrtdSec' = mrtdSec
       ELSE mrtdPage' = 0 /\ mrtdPc' = "section" /\ mrtdSec' = mrtdSec + 1
    /\ UNCHANGED <<fw, sections, mrtdVariant, mrtdH, mrtdOut>>
    /\ UNCHANGED notMrtdVars

\* mrExtend(s, page) in either loop; an out-of-range chunk read panics.
MrtdExtend ==
    /\ mrtdPc = "extend"
    /\ mrtdPage < NumPages(sections[mrtdSec])
    /\ IF mrExtendInRange(mrtdSec, mrtdPage)
       THEN /\ mrtdH' = mrtdH \o mrExtend(mrtdSec, mrtdPage)
            /\ mrtdPage' = mrtdPage + 1
            /\ mrtdPc' = IF IsTwoPass(mrtdVariant) THEN "extend" ELSE "add"
       ELSE /\ mrtdPc' = "panic"
            /\ UNCHANGED <<mrtdH, mrtdPage>>
    /\ UNCHANGED <<fw, sections, mrtdVariant, mrtdSec, mrtdOut>>
    /\ UNCHANGED notMrtdVars

\* The second loop of the two-pass order ends: the section is finished.
MrtdExtendLoopEnd ==
    /\ mrtdPc = "extend"
    /\ mrtdPage = NumPages(sections[mrtdSec])
    /\ mrtdPage' = 0
    /\ mrtdPc' = "section"
    /\ mrtdSec' = mrtdSec + 1
    /\ UNCHANGED <<fw, sections, mrtdVariant, mrtdH, mrtdOut>>
    /\ UNCHANGED notMrtdVars

\* return h.Sum(nil)
MrtdReturn ==
    /\ mrtdPc = "section"
    /\ mrtdSec > Len(sections)
    /\ mrtdPc' = "done"
    /\ mrtdOut' = IF IsKnownVariant(mrtdVariant)
                  THEN [ mrtdOut EXCEPT ![mrtdVariant] = [ done |-> TRUE, h |-> mrtdH ] ]
                  ELSE mrtdOut
    /\ UNCHANGED <<fw, sections, mrtdVariant, mrtdSec, mrtdPage, mrtdH>>
    /\ UNCHANGED notMrtdVars

\* computeMrtd is called again on the same metadata with the other variant
\* (both orders are needed, one per TCB_SVN).
MrtdCallOther ==
    /\ mrtdPc = "done"
    /\ \E v \in { mrtdVariantTwoPass, mrtdVariantSinglePass } :
          /\ ~mrtdOut[v].done
          /\ mrtdVariant' = v
    /\ mrtdSec' = 1
    /\ mrtdPage' = 0
    /\ mrtdPc' = "section"
    /\ mrtdH' = << >>
    /\ UNCHANGED <<fw, sections, mrtdOut>>
    /\ UNCHANGED notMrtdVars

MrtdNext ==
    \/ MrtdSectionBegin
    \/ MrtdUnknownVariant
    \/ MrtdPageAdd
    \/ MrtdAddLoopEnd
    \/ MrtdExtend
    \/ MrtdExtendLoopEnd
    \/ MrtdReturn
    \/ MrtdCallOther

SpecMrtd == MrtdInit /\ [][MrtdNext]_vars

(* Claims about the MRTD engine *)

\* The stream of the running call, or of a call of that variant that returned.
IsExtendWrite(w) == w.op \in { "MR.EXTEND", "DATA" }
Bit(b) == IF b THEN 1 ELSE 0

\* Lexicographic order on tuples of naturals of one length.
LexLess(a, b) ==
    \E i \in 1..Len(a) : a[i] < b[i] /\ \A j \in 1..(i - 1) : a[j] = b[j]

\* Position of a write in the two-pass order: section, then all PAGE.ADD
\* before all MR.EXTEND, then page, chunk, header before content.
TwoPassKey(w) == << w.sec, Bit(IsExtendWrite(w)), w.page, w.chunk, Bit(w.op = "DATA") >>

\* Position of a write in the single-pass order: section, page, then the
\* PAGE.ADD of the page before its chunks.
SinglePassKey(w) == << w.sec, w.page, Bit(IsExtendWrite(w)), w.chunk, Bit(w.op = "DATA") >>

\* C4: with the TwoPass variant the writes are made section by section in
\* descriptor order, and within a section every PAGE.ADD message (pages
\* increasing) comes before every MR.EXTEND message (pages and chunks
\* increasing): consecutive writes strictly increase in that order, and a
\* finished call has written every PAGE.ADD of a section before its first
\* MR.EXTEND.
C4_TwoPassOrder ==
    mrtdVariant = mrtdVariantTwoPass =>
        /\ \A i \in 1..(Len(mrtdH) - 1) :
              LexLess(TwoPassKey(mrtdH[i]), TwoPassKey(mrtdH[i + 1]))
        /\ \A i \in 1..Len(mrtdH) : mrtdH[i].sec \in 1..Len(sections)
        /\ mrtdPc = "done" =>
              \A si \in 1..Len(sections) :
                 LET s == sections[si]
                     adds == { i \in 1..Len(mrtdH) : mrtdH[i].sec = si /\ mrtdH[i].op = "MEM.PAGE.ADD" }
                     exts == { i \in 1..Len(mrtdH) : mrtdH[i].sec = si /\ IsExtendWrite(mrtdH[i]) }
                 IN  /\ \A a \in adds, e \in exts : a < e
                     /\ Cardinality(adds) = IF HasAttr(s, attributePageAug) THEN 0 ELSE NumPages(s)
                     /\ Cardinality(exts) =
                           IF HasAttr(s, attributeMrExtend) THEN 2 * ChunksPerPage * NumPages(s) ELSE 0

\* A two-pass call returned on two sections, the first of two pages with
\* both kinds of message.
C4_Witness ==
    /\ mrtdPc = "done"
    /\ mrtdVariant = mrtdVariantTwoPass
    /\ Len(sections) = 2
    /\ NumPages(sections[1]) = 2
    /\ HasAttr(sections[1], attributeMrExtend) /\ ~HasAttr(sections[1], attributePageAug)
    /\ HasAttr(sections[2], attributeMrExtend) /\ ~HasAttr(sections[2], attributePageAug)
    /\ NumPages(sections[2]) >= 1
    /\ Len(mrtdH) >= 3 * (1 + 2 * ChunksPerPage)

\* C5: with the SinglePass variant the writes are made section by section
\* and page by page; the PAGE.ADD message of page p is immediately followed
\* by the 16 MR.EXTEND chunks (header, content) of page p, before any
\* message of page p+1.
C5_SinglePassOrder ==
    mrtdVariant = mrtdVariantSinglePass =>
        /\ \A i \in 1..(Len(mrtdH) - 1) :
              LexLess(SinglePassKey(mrtdH[i]), SinglePassKey(mrtdH[i + 1]))
        /\ mrtdPc \in { "add", "section", "done" } =>
              \A i \in 1..Len(mrtdH) :
                 (mrtdH[i].op = "MEM.PAGE.ADD" /\ HasAttr(sections[mrtdH[i].sec], attributeMrExtend)) =>
                     /\ i + 2 * 16 <= Len(mrtdH)
                     /\ \A c \in 0..15 :
                           /\ mrtdH[i + 2 * c + 1].op = "MR.EXTEND"
                           /\ mrtdH[i + 2 * c + 2].op = "DATA"
                           /\ \A k \in 1..2 :
                                 /\ mrtdH[i + 2 * c + k].sec = mrtdH[i].sec
                                 /\ mrtdH[i + 2 * c + k].page = mrtdH[i].page
                                 /\ mrtdH[i + 2 * c + k].chunk = c

C5_Witness ==
    /\ mrtdPc = "done"
    /\ mrtdVariant = mrtdVariantSinglePass
    /\ Len(sections) = 2
    /\ NumPages(sections[1]) = 2
    /\ HasAttr(sections[1], attributeMrExtend) /\ ~HasAttr(sections[1], attributePageAug)
    /\ HasAttr(sections[2], attributeMrExtend) /\ ~HasAttr(sections[2], attributePageAug)
    /\ Len(mrtdH) >= 3 * (1 + 2 * ChunksPerPage)

BothReturned == mrtdOut[mrtdVariantTwoPass].done /\ mrtdOut[mrtdVariantSinglePass].done

\* What a write hands to the hasher is determined by (op, gpa, off).
SameWrite(a, b) == a.op = b.op /\ a.gpa = b.gpa /\ a.off = b.off

\* The two byte streams are equal.
StreamsEqual ==
    StreamBytes(mrtdOut[mrtdVariantTwoPass].h, fw) = StreamBytes(mrtdOut[mrtdVariantSinglePass].h, fw)

\* The two byte streams differ at some byte position present in both: after
\* a common prefix of identical writes, the next writes of the two streams
\* start at the same offset and differ in one of their first 128 bytes.
StreamsDiffer ==
    LET a == mrtdOut[mrtdVariantTwoPass].h
        b == mrtdOut[mrtdVariantSinglePass].h
    IN  \E i \in 1..Len(a) :
           /\ i <= Len(b)
           /\ \A j \in 1..(i - 1) : SameWrite(a[j], b[j])
           /\ \E k \in 1..128 : WriteBytes(a[i], fw)[k] # WriteBytes(b[i], fw)[k]

NonEmptyMrExtend(s) == HasAttr(s, attributeMrExtend) /\ s.memoryDataSize # LE(0, 8)

\* C6 as stated: whenever the metadata has at least two sections, each with
\* MR_EXTEND set and memoryDataSize > 0, the byte stream hashed by TwoPass
\* differs from the one hashed by SinglePass.
C6_Original ==
    (mrtdPc = "done" /\ BothReturned /\ Len(sections) >= 2
        /\ \A si \in 1..Len(sections) : NonEmptyMrExtend(sections[si]))
    => ~StreamsEqual

\* A section on which the two orders differ: both kinds of message are
\* emitted and there are at least two pages.
TwoOrdersSection(s) ==
    /\ HasAttr(s, attributeMrExtend)
    /\ ~HasAttr(s, attributePageAug)
    /\ NumPages(s) >= 2

\* C6 (amended): whenever some section has MR_EXTEND set, PAGE_AUG clear and
\* at least two pages, the byte stream hashed by TwoPass differs from the
\* one hashed by SinglePass (hence, SHA-384 being collision free, the two
\* digests differ).
C6_VariantsDiffer ==
    (mrtdPc = "done" /\ BothReturned
        /\ \E si \in 1..Len(sections) : TwoOrdersSection(sections[si]))
    => StreamsDiffer

C6_Witness ==
    /\ mrtdPc = "done"
    /\ BothReturned
    /\ Len(sections) = 2
    /\ ~TwoOrdersSection(sections[1])
    /\ NonEmptyMrExtend(sections[1])
    /\ TwoOrdersSection(sections[2])

\* The writes of a finished call for one section, by kind.
WritesOf(si, op) == { j \in 1..Len(mrtdH) : mrtdH[j].sec = si /\ mrtdH[j].op = op }
\* A 128-byte message: the name, zeros up to byte 16, the GPA in bytes 16
\* through 23, zeros after.
IsMessage(b, name, gpa) ==
    /\ Len(b) = 128
    /\ \A i \in 1..128 :
          b[i] = IF i <= Len(name) THEN name[i]
                 ELSE IF i \in 17..24 THEN gpa[i - 16] ELSE 0
\* memoryAddress + n as a 64-bit number.
GpaPlus(s, n) == WAdd(s.memoryAddress, LE(n, 8))

\* C26: in both variants a finished call has written, for a section of n
\* pages, one PAGE.ADD message per page when PAGE_AUG is clear and none when
\* it is set, and 16 MR.EXTEND messages per page, each followed at once by its
\* 256 bytes of content, when MR_EXTEND is set and none when it is clear; the
\* PAGE.ADD of page p carries memoryAddress + p*4096, chunk c of page p
\* carries memoryAddress + p*4096 + c*256 and the firmware bytes at
\* dataOffset + p*4096 + c*256.
C26_MessagesPerSection ==
    ( mrtdPc = "done" /\ mrtdVariant \in { 0, 1 } ) =>
        \A si \in 1..Len(sections) :
            LET s == sections[si]
                n == NumPages(s)
                pageAug == (s.attributes[1] \div 2) % 2 = 1
                extend == s.attributes[1] % 2 = 1
            IN  /\ Cardinality(WritesOf(si, "MEM.PAGE.ADD")) = IF pageAug THEN 0 ELSE n
                /\ Cardinality(WritesOf(si, "MR.EXTEND")) = IF extend THEN 16 * n ELSE 0
                /\ Cardinality(WritesOf(si, "DATA")) = IF extend THEN 16 * n ELSE 0
                /\ ~pageAug =>
                      \A p \in 0..(n - 1) :
                          \E j \in WritesOf(si, "MEM.PAGE.ADD") :
                              /\ mrtdH[j].page = p
                              /\ IsMessage(WriteBytes(mrtdH[j], fw),
                                           << 77, 69, 77, 46, 80, 65, 71, 69, 46, 65, 68, 68 >>,
                                           GpaPlus(s, p * 4096))
                /\ extend =>
                      \A p \in 0..(n - 1), c \in 0..15 :
                          \E j \in WritesOf(si, "MR.EXTEND") :
                              /\ mrtdH[j].page = p /\ mrtdH[j].chunk = c
                              /\ IsMessage(WriteBytes(mrtdH[j], fw),
                                           << 77, 82, 46, 69, 88, 84, 69, 78, 68 >>,
                                           GpaPlus(s, p * 4096 + c * 256))
                              /\ j + 1 \in WritesOf(si, "DATA")
                              /\ WriteBytes(mrtdH[j + 1], fw) =
                                    SubSeq(fw, WVal(s.dataOffset) + p * 4096 + c * 256 + 1,
                                           WVal(s.dataOffset) + p * 4096 + c * 256 + 256)

\* A two-pass call returned on a first section of two pages with both kinds
\* of message.
C26_Witness ==
    /\ mrtdPc = "done"
    /\ mrtdVariant = mrtdVariantTwoPass
    /\ Len(sections) >= 1
    /\ NumPages(sections[1]) = 2
    /\ Cardinality(WritesOf(1, "MEM.PAGE.ADD")) = 2
    /\ Cardinality(WritesOf(1, "MR.EXTEND")) = 32

---------------------------------------------------------------------------
(* The ACPI table builder: GenerateTablesQemu2 and GenerateTablesQemu      *)

\* Table signatures and loader file names, as bytes.
SigDSDT == <<68, 83, 68, 84>>
SigFACP == <<70, 65, 67, 80>>
SigAPIC == <<65, 80, 73, 67>>
SigMCFG == <<77, 67, 70, 71>>
SigWAET == <<87, 65, 69, 84>>
SigRSDT == <<82, 83, 68, 84>>
SigSSDT == <<83, 83, 68, 84>>
FileRsdp == <<101, 116, 99, 47, 97, 99, 112, 105, 47, 114, 115, 100, 112>>
FileTables ==
    <<101, 116, 99, 47, 97, 99, 112, 105, 47, 116, 97, 98, 108, 101, 115>>

\* The order in which GenerateTablesQemu2 looks the tables up.
RequiredTables == <<SigDSDT, SigFACP, SigAPIC, SigMCFG, SigWAET, SigRSDT>>

\* if len(tables) < 12 { return ... "ACPI table is too short" }
acpiMinLen == 12

\* findAcpiTable walks the tables from offset 0: the signature is the four
\* bytes at the offset, the length the little-endian uint32 after it.  It
\* returns (offset, offset + 9, length) or an error.
AcpiNoTable(e) == [err |-> e, offset |-> << >>, csum |-> << >>, length |-> << >>]

RECURSIVE findAcpiTableFrom(_, _, _)
findAcpiTableFrom(tables, signature, offset) ==
    IF offset >= Len(tables) THEN AcpiNoTable("not found")
    ELSE LET tblSig == SubSeq(tables, offset + 1, offset + 4)
             tblLen == SubSeq(tables, offset + 5, offset + 8)
         IN  IF tblSig = signature
             THEN [err |-> "", offset |-> LE(offset, 4),
                   csum |-> LE(offset + 9, 4), length |-> tblLen]
             ELSE IF tblLen = Zeros(4) THEN AcpiNoTable("zero length")
             ELSE IF ~WIsSmall(tblLen) THEN AcpiNoTable("not found")
             ELSE findAcpiTableFrom(tables, signature, offset + WVal(tblLen))

findAcpiTable(tables, signature) ==
    IF Len(tables) < acpiMinLen THEN AcpiNoTable("too short")
    ELSE findAcpiTableFrom(tables, signature, 0)

\* lengthOffset := dsdtLen - 684 (GenerateTablesQemu: dsdtLen - 0x2ac);
\* rangeMinimumOffset := lengthOffset - 12.  Both are uint32.
dsdtLengthBack == 684
dsdtRangeMinimumBack == 12
lengthOffset(dsdtLen) == WSub(dsdtLen, LE(dsdtLengthBack, 4))
rangeMinimumOffset(dsdtLen) ==
    WSub(lengthOffset(dsdtLen), LE(dsdtRangeMinimumBack, 4))

\* The memory split at 2816 MiB.
memorySplitMiB == 2816

\* The else branch taken for every size (no split).
DsdtPatchValuesNoSplit(m) ==
    LET memSizeBytes == WResize(WMul(WMul(m, 1024), 1024), 4)
    IN  [rangeMinimum |-> memSizeBytes,
         length |-> WSub(B4(57344, 0), memSizeBytes)]

\* The two values written into the template:
\*   if memorySize >= 2816 { 0x80000000, 0x60000000 }
\*   else { memSizeBytes := uint32(memorySize * 1024 * 1024);
\*          memSizeBytes, 0xe0000000 - memSizeBytes }
DsdtPatchValues(m) ==
    IF WLe(LE(memorySplitMiB, 8), m)
    THEN [rangeMinimum |-> B4(32768, 0), length |-> B4(24576, 0)]
    ELSE LET memSizeBytes == WResize(WMul(WMul(m, 1024), 1024), 4)
         IN  [rangeMinimum |-> memSizeBytes,
              length |-> WSub(B4(57344, 0), memSizeBytes)]

\* binary.LittleEndian.PutUint32(b[off:], v): panics when fewer than four
\* bytes lie at off (off is a uint32, so a wrapped offset is far out of range).
PutUint32Panics(b, off) == ~WIsSmall(off) \/ WVal(off) + 4 > Len(b)
PutUint32(b, off, v) ==
    [i \in 1..Len(b) |->
        IF i > WVal(off) /\ i <= WVal(off) + 4 THEN v[i - WVal(off)] ELSE b[i]]

\* The patch as a whole: the range minimum is written first, then the length.
PatchDsdtPanics(t, dsdtLen) ==
    \/ PutUint32Panics(t, rangeMinimumOffset(dsdtLen))
    \/ PutUint32Panics(t, lengthOffset(dsdtLen))
PatchDsdt(t, dsdtLen, m) ==
    PutUint32(PutUint32(t, rangeMinimumOffset(dsdtLen),
                        DsdtPatchValues(m).rangeMinimum),
              lengthOffset(dsdtLen), DsdtPatchValues(m).length)

\* rsdp := "RSD PTR ", checksum 0, "BOCHS ", revision 0; then the RSDT offset.
rsdpHeader ==
    <<82, 83, 68, 32, 80, 84, 82, 32, 0, 66, 79, 67, 72, 83, 32, 0>>
BuildRsdp(rsdtOffset) == rsdpHeader \o rsdtOffset

\* The three command structs.
qemuLoaderCmdAllocate(file, alignment, zone) ==
    [kind |-> "allocate", file |-> file, alignment |-> alignment, zone |-> zone]
qemuLoaderCmdAddPtr(pointerFile, pointeeFile, pointerOffset, pointerSize) ==
    [kind |-> "addPtr", pointerFile |-> pointerFile, pointeeFile |-> pointeeFile,
     pointerOffset |-> pointerOffset, pointerSize |-> pointerSize]
qemuLoaderCmdAddChecksum(file, resultOffset, start, length) ==
    [kind |-> "addChecksum", file |-> file, resultOffset |-> resultOffset,
     start |-> start, length |-> length]

\* appendFixedString: the string, zero-padded to 56 bytes when shorter.
fixedLength == 56
appendFixedString(data, str) ==
    data \o str \o (IF Len(str) < fixedLength
                    THEN Zeros(fixedLength - Len(str)) ELSE << >>)

\* qemuLoaderAppend appends one command to the blob.
qemuLoaderAppend(data, c) ==
    IF c.kind = "allocate"
    THEN appendFixedString(data \o <<1, 0, 0, 0>>, c.file)
         \o c.alignment \o <<c.zone>> \o Zeros(63)
    ELSE IF c.kind = "addPtr"
    THEN appendFixedString(
             appendFixedString(data \o <<2, 0, 0, 0>>, c.pointerFile),
             c.pointeeFile)
         \o c.pointerOffset \o <<c.pointerSize>> \o Zeros(7)
    ELSE appendFixedString(data \o <<3, 0, 0, 0>>, c.file)
         \o c.resultOffset \o c.start \o c.length \o Zeros(56)

\* const ldrLength = 4096
ldrLength == 4096

\* The commands in another order (the two ALLOCATEs after the DSDT checksum).
LoaderCommandsReordered(tabs) ==
    LET csum(k) == qemuLoaderCmdAddChecksum(FileTables, tabs[k].csum,
                                            tabs[k].offset, tabs[k].length)
        ptr(k, d, n) == qemuLoaderCmdAddPtr(FileTables, FileTables,
                                            WAdd(tabs[k].offset, LE(d, 4)), n)
    IN  << csum(1),
           qemuLoaderCmdAllocate(FileRsdp, LE(16, 4), 2),
           qemuLoaderCmdAllocate(FileTables, LE(64, 4), 1),
           ptr(2, 36, 4), ptr(2, 40, 4), ptr(2, 140, 8),
           csum(2), csum(3), csum(4), csum(5),
           ptr(6, 36, 4), ptr(6, 40, 4), ptr(6, 44, 4), ptr(6, 48, 4),
           csum(6),
           qemuLoaderCmdAddPtr(FileRsdp, FileTables, LE(16, 4), 4),
           qemuLoaderCmdAddChecksum(FileRsdp, LE(8, 4), LE(0, 4), LE(20, 4)) >>

\* The commands GenerateTablesQemu2 appends, in order; tabs holds the six
\* tables in the order of RequiredTables.
LoaderCommands(tabs) ==
    LET csum(k) == qemuLoaderCmdAddChecksum(FileTables, tabs[k].csum,
                                            tabs[k].offset, tabs[k].length)
        ptr(k, d, n) == qemuLoaderCmdAddPtr(FileTables, FileTables,
                                            WAdd(tabs[k].offset, LE(d, 4)), n)
    IN  << qemuLoaderCmdAllocate(FileRsdp, LE(16, 4), 2),
           qemuLoaderCmdAllocate(FileTables, LE(64, 4), 1),
           csum(1),
           ptr(2, 36, 4), ptr(2, 40, 4), ptr(2, 140, 8),
           csum(2), csum(3), csum(4), csum(5),
           ptr(6, 36, 4), ptr(6, 40, 4), ptr(6, 44, 4), ptr(6, 48, 4),
           csum(6),
           qemuLoaderCmdAddPtr(FileRsdp, FileTables, LE(16, 4), 4),
           qemuLoaderCmdAddChecksum(FileRsdp, LE(8, 4), LE(0, 4), LE(20, 4)) >>

\* No padding at all.
PadLoaderNone(l) == l

\* if len(ldr) < ldrLength { ldr = append(ldr, zeros(ldrLength-len(ldr))...) }
PadLoader(l) == IF Len(l) < ldrLength THEN l \o Zeros(ldrLength - Len(l)) ELSE l

\* The embedded templates.  A template is described by the tables it holds,
\* each a signature and a length; the table body is filler that depends on the
\* position, so that a write is visible wherever it lands.
AcpiTableBytes(sig, n, base) ==
    sig \o LE(n, 4) \o [i \in 1..(IF n > 8 THEN n - 8 ELSE 0) |-> 1 + ((base + i) % 250)]

RECURSIVE AcpiBlobFrom(_, _, _)
AcpiBlobFrom(layout, k, base) ==
    IF k > Len(layout) THEN << >>
    ELSE AcpiTableBytes(layout[k][1], layout[k][2], base)
         \o AcpiBlobFrom(layout, k + 1, base + layout[k][2])

MaxCpuCount == 8

\* The layout of the template of each CPU count that has one.
AcpiLayout(n) ==
    IF n = 1 THEN << <<SigDSDT, 760>>, <<SigFACP, 16>>, <<SigAPIC, 24>>,
                     <<SigMCFG, 12>>, <<SigWAET, 16>>, <<SigRSDT, 52>> >>
    ELSE IF n = 2 THEN << <<SigFACP, 20>>, <<SigDSDT, 740>>, <<SigSSDT, 12>>,
                          <<SigAPIC, 16>>, <<SigMCFG, 16>>, <<SigWAET, 12>>,
                          <<SigRSDT, 16>> >>
    ELSE IF n = 3 THEN << <<SigDSDT, 690>>, <<SigFACP, 16>>, <<SigAPIC, 16>>,
                          <<SigMCFG, 16>>, <<SigWAET, 16>>, <<SigRSDT, 16>> >>
    ELSE IF n = 4 THEN << <<SigDSDT, 760>>, <<SigFACP, 16>>, <<SigAPIC, 16>>,
                          <<SigMCFG, 16>>, <<SigRSDT, 16>> >>
    ELSE IF n = 5 THEN << <<SigDSDT, 760>>, <<SigFACP, 16>>, <<SigAPIC, 16>>,
                          <<SigMCFG, 16>>, <<SigSSDT, 0>>, <<SigWAET, 16>>,
                          <<SigRSDT, 16>> >>
    ELSE IF n = 6 THEN << <<SigDSDT, 8>> >>
    ELSE IF n = 7 THEN << <<SigDSDT, 760>>, <<SigFACP, 16>>, <<SigAPIC, 16>>,
                          <<SigMCFG, 16>>, <<SigWAET, 16>>, <<SigRSDT, 0>> >>
    ELSE IF n = 8 THEN << <<SigFACP, 100>>, <<SigDSDT, 760>>, <<SigAPIC, 16>>,
                          <<SigMCFG, 16>>, <<SigWAET, 16>>, <<SigRSDT, 16>> >>
    ELSE << >>

\* templateFiles.ReadFile("template_qemu_cpu%d.hex") and hex.DecodeString.
HasTemplate(n) == AcpiLayout(n) # << >>
Template(n) == AcpiBlobFrom(AcpiLayout(n), 1, 0)

\* Memory sizes (MiB, uint64) the builder is run on: around the split, the
\* default, and sizes whose byte count does not fit 32 bits.
AcpiMemorySizes ==
    { LE(0, 8), LE(1, 8), LE(2048, 8), LE(2815, 8), LE(2816, 8), LE(4096, 8),
      LE(8192, 8), B8(0, 1, 0, 2815), B8(32768, 0, 0, 0) }

AcpiInit ==
    /\ LogIdle /\ MrtdIdle /\ HobIdle /\ RunIdle /\ RestIdle
    /\ acpiGen \in { 1, 2 }
    /\ memorySize \in AcpiMemorySizes
    /\ cpuCount \in 0..MaxCpuCount
    /\ acpiPc = "template"
    /\ tpl = << >> /\ acpiTabs = << >> /\ rsdp = << >> /\ ldr = << >>
    /\ acpiCmd = 0

\* Fetch and decode the template of the CPU count; GenerateTablesQemu2 also
\* starts the RSDP here.
AcpiReadTemplate ==
    /\ acpiPc = "template"
    /\ IF HasTemplate(cpuCount)
       THEN /\ tpl' = Template(cpuCount)
            /\ rsdp' = (IF acpiGen = 2 THEN rsdpHeader ELSE << >>)
            /\ acpiPc' = "find"
       ELSE /\ acpiPc' = "error"
            /\ UNCHANGED <<tpl, rsdp>>
    /\ UNCHANGED <<acpiCmd, acpiGen, memorySize, cpuCount, acpiTabs, ldr>>
    /\ UNCHANGED notAcpiVars

\* One findAcpiTable call with its error check.  GenerateTablesQemu patches
\* the DSDT right after finding it, GenerateTablesQemu2 after the last table.
AcpiFindTable ==
    /\ acpiPc = "find"
    /\ LET k == Len(acpiTabs) + 1
           r == findAcpiTable(tpl, RequiredTables[k])
       IN  IF r.err # ""
           THEN acpiPc' = "error" /\ UNCHANGED acpiTabs
           ELSE /\ acpiTabs' = Append(acpiTabs, r)
                /\ acpiPc' = IF acpiGen = 1
                             THEN (IF k = 1 THEN "patch"
                                   ELSE IF k = Len(RequiredTables) THEN "rsdp"
                                   ELSE "find")
                             ELSE (IF k = Len(RequiredTables) THEN "patch"
                                   ELSE "find")
    /\ UNCHANGED <<acpiCmd, acpiGen, memorySize, cpuCount, tpl, rsdp, ldr>>
    /\ UNCHANGED notAcpiVars

\* Handle memory split at 2816 MiB: the two PutUint32 into the template.
AcpiPatchDsdt ==
    /\ acpiPc = "patch"
    /\ IF PatchDsdtPanics(tpl, acpiTabs[1].length)
       THEN acpiPc' = "panic" /\ UNCHANGED tpl
       ELSE /\ tpl' = PatchDsdt(tpl, acpiTabs[1].length, memorySize)
            /\ acpiPc' = IF acpiGen = 1 THEN "find" ELSE "rsdp"
    /\ UNCHANGED <<acpiCmd, acpiGen, memorySize, cpuCount, acpiTabs, rsdp, ldr>>
    /\ UNCHANGED notAcpiVars

\* Update RSDP with RSDT address.
AcpiBuildRsdp ==
    /\ acpiPc = "rsdp"
    /\ rsdp' = BuildRsdp(acpiTabs[6].offset)
    /\ acpiPc' = "loader"
    /\ UNCHANGED <<acpiCmd, acpiGen, memorySize, cpuCount, tpl, acpiTabs, ldr>>
    /\ UNCHANGED notAcpiVars

\* ldr = qemuLoaderAppend(ldr, ...): one command per step.
AcpiLoaderAppend ==
    /\ acpiPc = "loader"
    /\ LET cmds == LoaderCommands(acpiTabs)
           k == acpiCmd + 1
       IN  /\ ldr' = qemuLoaderAppend(ldr, cmds[k])
           /\ acpiCmd' = k
           /\ acpiPc' = IF k = Len(cmds) THEN "pad" ELSE "loader"
    /\ UNCHANGED <<acpiGen, memorySize, cpuCount, tpl, acpiTabs, rsdp>>
    /\ UNCHANGED notAcpiVars

\* if len(ldr) < ldrLength { pad }
AcpiPadLoader ==
    /\ acpiPc = "pad"
    /\ ldr' = PadLoader(ldr)
    /\ acpiPc' = "return"
    /\ UNCHANGED <<acpiCmd, acpiGen, memorySize, cpuCount, tpl, acpiTabs, rsdp>>
    /\ UNCHANGED notAcpiVars

\* return tpl, rsdp, ldr, nil
AcpiReturn ==
    /\ acpiPc = "return"
    /\ acpiPc' = "done"
    /\ UNCHANGED <<acpiCmd, acpiGen, memorySize, cpuCount, tpl, acpiTabs, rsdp, ldr>>
    /\ UNCHANGED notAcpiVars

AcpiNext ==
    \/ AcpiReadTemplate
    \/ AcpiFindTable
    \/ AcpiPatchDsdt
    \/ AcpiBuildRsdp
    \/ AcpiLoaderAppend
    \/ AcpiPadLoader
    \/ AcpiReturn

SpecAcpi == AcpiInit /\ [][AcpiNext]_vars

---------------------------------------------------------------------------
(* Properties of the ACPI table builder                                    *)

\* The DSDT patch has been made (GenerateTablesQemu makes it right after the
\* DSDT is found, GenerateTablesQemu2 after all six tables are found).
AcpiPatched ==
    IF acpiGen = 1
    THEN Len(acpiTabs) >= 1 /\ acpiPc \notin { "patch", "panic" }
    ELSE acpiPc \in { "rsdp", "loader", "pad", "return", "done" }

\* The four bytes of a buffer at a byte offset.
FieldAt(b, off) == SubSeq(b, off + 1, off + 4)

\* memorySize * 1048576 and 0xE0000000 - memorySize * 1048576 for a size below
\* 2816, written out as little-endian bytes: the product is (size * 16) shifted
\* left by two bytes, and 0xE0000000 is 0xE000 shifted left by two bytes.
MiBTimes1048576(n) == << 0, 0, (n * 16) % 256, (n * 16) \div 256 >>
RestBelow0xE0000000(n) ==
    << 0, 0, (57344 - n * 16) % 256, (57344 - n * 16) \div 256 >>

BelowSplit == WIsSmall(memorySize) /\ WVal(memorySize) < 2816

\* C7: once the builder has patched the template, the 32-bit field at
\* rangeMinimumOffset holds 0x80000000 and the one at lengthOffset holds
\* 0x60000000 when memorySize >= 2816; otherwise they hold
\* memorySize * 1048576 (not truncated) and 0xE0000000 minus that.
C7_DsdtPatchValues ==
    AcpiPatched =>
        LET lenOff == WVal(acpiTabs[1].length) - 684
            minOff == lenOff - 12
        IN  IF BelowSplit
            THEN /\ FieldAt(tpl, minOff) = MiBTimes1048576(WVal(memorySize))
                 /\ FieldAt(tpl, lenOff) = RestBelow0xE0000000(WVal(memorySize))
            ELSE /\ FieldAt(tpl, minOff) = << 0, 0, 0, 128 >>
                 /\ FieldAt(tpl, lenOff) = << 0, 0, 0, 96 >>

\* A run on 2815 MiB that returned, with rangeMinimum = 0xAFF00000.
C7_Witness ==
    /\ acpiPc = "done" /\ memorySize = LE(2815, 8)
    /\ FieldAt(tpl, WVal(acpiTabs[1].length) - 696) = << 0, 0, 240, 175 >>

\* C8: the loader blob the builder returns is exactly 4096 bytes long and is
\* zero after its last command record.
C8_LoaderBlobIs4096 ==
    acpiPc \in { "return", "done" } =>
        /\ Len(ldr) = 4096
        /\ \A i \in (acpiCmd * 128 + 1)..Len(ldr) : ldr[i] = 0

\* A returned blob whose command records end before byte 4096.
C8_Witness ==
    acpiPc = "done" /\ acpiCmd * 128 < 4096 /\ Len(ldr) = 4096

\* True offset and length of a table in a template, from the template's layout.
RECURSIVE TrueOffsetFrom(_, _, _)
TrueOffsetFrom(layout, sig, k) ==
    IF layout[k][1] = sig THEN 0
    ELSE layout[k][2] + TrueOffsetFrom(layout, sig, k + 1)
TrueOffset(sig) == TrueOffsetFrom(AcpiLayout(cpuCount), sig, 1)
TrueLength(sig) ==
    LET layout == AcpiLayout(cpuCount)
        k == CHOOSE j \in 1..Len(layout) : layout[j][1] = sig
    IN  layout[k][2]

\* Record number k (1-based) of the loader blob and its parts.
LoaderRecord(k) == SubSeq(ldr, (k - 1) * 128 + 1, k * 128)
Padded56(name) == name \o Zeros(56 - Len(name))
IsAllocate(r, file, align, zone) ==
    /\ SubSeq(r, 1, 4) = << 1, 0, 0, 0 >>
    /\ SubSeq(r, 5, 60) = Padded56(file)
    /\ SubSeq(r, 61, 64) = LE(align, 4)
    /\ r[65] = zone
    /\ SubSeq(r, 66, 128) = Zeros(63)
IsAddPointer(r, pointer, pointee, off, size) ==
    /\ SubSeq(r, 1, 4) = << 2, 0, 0, 0 >>
    /\ SubSeq(r, 5, 60) = Padded56(pointer)
    /\ SubSeq(r, 61, 116) = Padded56(pointee)
    /\ SubSeq(r, 117, 120) = LE(off, 4)
    /\ r[121] = size
    /\ SubSeq(r, 122, 128) = Zeros(7)
IsAddChecksum(r, file, result, start, length) ==
    /\ SubSeq(r, 1, 4) = << 3, 0, 0, 0 >>
    /\ SubSeq(r, 5, 60) = Padded56(file)
    /\ SubSeq(r, 61, 64) = LE(result, 4)
    /\ SubSeq(r, 65, 68) = LE(start, 4)
    /\ SubSeq(r, 69, 72) = LE(length, 4)
    /\ SubSeq(r, 73, 128) = Zeros(56)
IsTableChecksum(r, sig) ==
    IsAddChecksum(r, FileTables, TrueOffset(sig) + 9, TrueOffset(sig),
                  TrueLength(sig))
IsTablePointer(r, sig, d, size) ==
    IsAddPointer(r, FileTables, FileTables, TrueOffset(sig) + d, size)

\* C9: when the last command has been appended the blob is exactly 17
\* records of 128 bytes: ALLOCATE rsdp, ALLOCATE tables, ADD_CHECKSUM DSDT,
\* three ADD_POINTER into FACP, ADD_CHECKSUM FACP, APIC, MCFG, WAET, four
\* ADD_POINTER into RSDT, ADD_CHECKSUM RSDT, ADD_POINTER rsdp -> tables,
\* ADD_CHECKSUM rsdp; each checksum of a table carries (offset + 9, offset,
\* length) of that table in the template.
C9_SeventeenRecords ==
    acpiPc \in { "pad", "return", "done" } =>
        /\ acpiCmd = 17
        /\ acpiPc = "pad" => Len(ldr) = 17 * 128
        /\ Len(ldr) >= 17 * 128
        /\ IsAllocate(LoaderRecord(1), FileRsdp, 16, 2)
        /\ IsAllocate(LoaderRecord(2), FileTables, 64, 1)
        /\ IsTableChecksum(LoaderRecord(3), SigDSDT)
        /\ IsTablePointer(LoaderRecord(4), SigFACP, 36, 4)
        /\ IsTablePointer(LoaderRecord(5), SigFACP, 40, 4)
        /\ IsTablePointer(LoaderRecord(6), SigFACP, 140, 8)
        /\ IsTableChecksum(LoaderRecord(7), SigFACP)
        /\ IsTableChecksum(LoaderRecord(8), SigAPIC)
        /\ IsTableChecksum(LoaderRecord(9), SigMCFG)
        /\ IsTableChecksum(LoaderRecord(10), SigWAET)
        /\ IsTablePointer(LoaderRecord(11), SigRSDT, 36, 4)
        /\ IsTablePointer(LoaderRecord(12), SigRSDT, 40, 4)
        /\ IsTablePointer(LoaderRecord(13), SigRSDT, 44, 4)
        /\ IsTablePointer(LoaderRecord(14), SigRSDT, 48, 4)
        /\ IsTableChecksum(LoaderRecord(15), SigRSDT)
        /\ IsAddPointer(LoaderRecord(16), FileRsdp, FileTables, 16, 4)
        /\ IsAddChecksum(LoaderRecord(17), FileRsdp, 8, 0, 20)

\* A returned blob built from a template whose DSDT is not the first table.
C9_Witness ==
    /\ acpiPc = "done" /\ acpiCmd = 17 /\ cpuCount = 2
    /\ IsTableChecksum(LoaderRecord(3), SigDSDT)

\* What the template of the CPU count holds for a signature: no table, or a
\* table of length 0 on the walk from offset 0 up to the first table with the
\* signature, that table included.
SignatureAbsent(sig) ==
    \A j \in 1..Len(AcpiLayout(cpuCount)) : AcpiLayout(cpuCount)[j][1] # sig
ZeroLengthOnWalk(sig) ==
    \E j \in 1..Len(AcpiLayout(cpuCount)) :
        /\ AcpiLayout(cpuCount)[j][2] = 0
        /\ \A i \in 1..(j - 1) : AcpiLayout(cpuCount)[i][1] # sig

\* C23: every result findAcpiTable returned is (offset, offset + 9, length)
\* of the first table with the signature, and it returned none for a
\* signature that is absent or with a table of length 0 on the walk, the
\* matching table included.
C23_FindAcpiTable ==
    \A k \in 1..Len(acpiTabs) :
        /\ ~SignatureAbsent(RequiredTables[k])
        /\ ~ZeroLengthOnWalk(RequiredTables[k])
        /\ acpiTabs[k].offset = LE(TrueOffset(RequiredTables[k]), 4)
        /\ acpiTabs[k].csum = LE(TrueOffset(RequiredTables[k]) + 9, 4)
        /\ acpiTabs[k].length = LE(TrueLength(RequiredTables[k]), 4)

\* The bytes of the tables blob that differ from the decoded template.
RewrittenBytes == { i \in 1..Len(tpl) : tpl[i] # Template(cpuCount)[i] }
\* The byte range of the DSDT in the blob, [dsdtOffset, dsdtOffset + dsdtLen),
\* as 1-based positions.
DsdtRange == (TrueOffset(SigDSDT) + 1)..(TrueOffset(SigDSDT) + TrueLength(SigDSDT))

\* A set of positions covered by two runs of four consecutive positions.
FirstOf(S) == CHOOSE x \in S : \A y \in S : x <= y
InTwoFields(S) ==
    \/ S = { }
    \/ LET rest == { i \in S : i > FirstOf(S) + 3 }
       IN  rest = { } \/ \A i \in rest : i <= FirstOf(rest) + 3

\* C27: after the memory patch the blob has the length of the template, the
\* bytes that were rewritten are those of two 4-byte fields that lie inside
\* the DSDT, and every other byte is the template's.
C27_PatchInsideDsdt ==
    AcpiPatched =>
        /\ Len(tpl) = Len(Template(cpuCount))
        /\ RewrittenBytes \subseteq DsdtRange
        /\ InTwoFields(RewrittenBytes)

---------------------------------------------------------------------------
(* measureTdxQemuTdHob: the TD HOB                                         *)

\* tdHobBaseAddr := uint64(0x809000)
defaultTdHobBaseAddr == B8(0, 0, 128, 36864)

\* for _, s := range meta.sections { if s.secType == tdvfSectionTdHob {...; break} }
RECURSIVE FirstTdHobFrom(_, _)
FirstTdHobFrom(secs, i) ==
    IF i > Len(secs) THEN defaultTdHobBaseAddr
    ELSE IF secs[i].secType = LE(tdvfSectionTdHob, 4) THEN secs[i].memoryAddress
    ELSE FirstTdHobFrom(secs, i + 1)

\* The last section of the type instead of the first.
RECURSIVE LastTdHobFrom(_, _)
LastTdHobFrom(secs, i) ==
    IF i = 0 THEN defaultTdHobBaseAddr
    ELSE IF secs[i].secType = LE(tdvfSectionTdHob, 4) THEN secs[i].memoryAddress
    ELSE LastTdHobFrom(secs, i - 1)
DiscoverTdHobBaseLast(meta) ==
    IF meta.isNil THEN defaultTdHobBaseAddr
    ELSE LastTdHobFrom(meta.sections, Len(meta.sections))

\* A *tdvfMetadata is [isNil, sections]; nil has no sections.
DiscoverTdHobBase(meta) ==
    IF meta.isNil THEN defaultTdHobBaseAddr
    ELSE FirstTdHobFrom(meta.sections, 1)

\* EFI_HOB_TYPE_HANDOFF: type 1, length 56, version 9, everything else zero.
hobHandoff == << 1, 0, 56, 0, 0, 0, 0, 0, 9, 0, 0, 0 >> \o Zeros(44)

\* addMemoryResourceHob: the 48 bytes it appends.
ResourceHob(resourceType, start, length) ==
    << 3, 0, 48, 0, 0, 0, 0, 0 >> \o Zeros(16)
    \o << resourceType, 0, 0, 0, 7, 0, 0, 0 >> \o start \o length

\* The seven resource descriptors every TD HOB has: type, start, length.
FixedResources ==
    << << 7, B8(0, 0, 0, 0), B8(0, 0, 128, 0) >>,
       << 0, B8(0, 0, 128, 0), B8(0, 0, 0, 24576) >>,
       << 7, B8(0, 0, 128, 24576), B8(0, 0, 0, 12288) >>,
       << 0, B8(0, 0, 128, 36864), B8(0, 0, 0, 8192) >>,
       << 0, B8(0, 0, 128, 45056), B8(0, 0, 0, 8192) >>,
       << 7, B8(0, 0, 128, 53248), B8(0, 0, 0, 16384) >>,
       << 0, B8(0, 0, 129, 4096), B8(0, 0, 0, 61440) >> >>

\* Start of the memory above the fixed ranges, the length of the low part
\* and the start of the high part when memory is split at 2816 MiB.
hobLowStart == B8(0, 0, 130, 0)
hobLowLength == B8(0, 0, 32638, 0)
hobHighStart == B8(0, 1, 0, 0)

\* remainingMemory := memorySize * 1024 * 1024
MemoryBytes(m) == WMul(WMul(m, 1024), 1024)

\* The high record given all that remained before the low one.
SplitResourcesWholeRemaining(m, remaining) ==
    IF WLe(LE(memorySplitMiB, 8), m)
    THEN ResourceHob(7, hobLowStart, hobLowLength)
         \o ResourceHob(7, hobHighStart, remaining)
    ELSE ResourceHob(7, hobLowStart, remaining)

\* The descriptors appended after the fixed ones, given what remains.
SplitResources(m, remaining) ==
    IF WLe(LE(memorySplitMiB, 8), m)
    THEN ResourceHob(7, hobLowStart, hobLowLength)
         \o ResourceHob(7, hobHighStart, WSub(remaining, hobLowLength))
    ELSE ResourceHob(7, hobLowStart, remaining)

\* PutUint64(val[:], tdHobBaseAddr+uint64(len(tdHob))+8); copy(tdHob[48:56], val[:])
UpdateEndOfHobList(hob, base) ==
    LET val == WAdd(WAdd(base, LE(Len(hob), 8)), LE(8, 8))
    IN  [ i \in 1..Len(hob) |-> IF i \in 49..56 THEN val[i - 48] ELSE hob[i] ]

RECURSIVE FixedHobsFrom(_)
FixedHobsFrom(k) ==
    IF k > Len(FixedResources) THEN << >>
    ELSE ResourceHob(FixedResources[k][1], FixedResources[k][2],
                     FixedResources[k][3]) \o FixedHobsFrom(k + 1)

RECURSIVE RemainingAfter(_, _)
RemainingAfter(remaining, k) ==
    IF k = 0 THEN remaining
    ELSE WSub(RemainingAfter(remaining, k - 1), FixedResources[k][3])

\* The TD HOB buffer and its measurement, as functions of the arguments.
TdHobBuffer(m, meta) ==
    UpdateEndOfHobList(
        hobHandoff \o FixedHobsFrom(1)
        \o SplitResources(m, RemainingAfter(MemoryBytes(m), Len(FixedResources))),
        DiscoverTdHobBase(meta))

measureTdxQemuTdHob(m, meta) == measureSha384(TdHobBuffer(m, meta))

\* Metadata the TD HOB is built from: none, or sections of the four section
\* types (BFV 0, CFV 1, TD_HOB 2, TempMem 3) at different addresses, one of
\* them so high that adding the buffer length wraps.
HobSection(secType, addr) ==
    tdvfSection(LE(0, 4), LE(0, 4), addr, LE(2 * pageSize, 8), LE(secType, 4),
                LE(0, 4))

HobSectionPool ==
    { HobSection(0, B8(0, 0, 65480, 16384)),
      HobSection(tdvfSectionTdHob, B8(0, 0, 128, 36864)),
      HobSection(tdvfSectionTdHob, B8(0, 0, 129, 0)),
      HobSection(tdvfSectionTdHob, B8(65535, 65535, 65535, 61440)),
      HobSection(3, B8(0, 0, 129, 4096)) }

NilMeta == [ isNil |-> TRUE, sections |-> << >> ]
MetaOf(secs) == [ isNil |-> FALSE, sections |-> secs ]

HobInit ==
    /\ LogIdle /\ MrtdIdle /\ AcpiIdle /\ RunIdle /\ RestIdle
    /\ hobMem \in AcpiMemorySizes
    /\ hobMeta \in { NilMeta }
                   \cup { MetaOf(s) : s \in SeqsUpTo(HobSectionPool, MaxSections) }
    /\ hobPc = "base"
    /\ tdHob = << >>
    /\ tdHobBaseAddr = defaultTdHobBaseAddr
    /\ remainingMemory = LE(0, 8)
    /\ hobK = 0
    /\ hobOut = << >>

\* Discover the TD HOB base address from TDVF metadata.
HobDiscoverBase ==
    /\ hobPc = "base"
    /\ tdHobBaseAddr' = DiscoverTdHobBase(hobMeta)
    /\ hobPc' = "handoff"
    /\ UNCHANGED <<hobMem, hobMeta, tdHob, remainingMemory, hobK, hobOut>>
    /\ UNCHANGED notHobVars

\* Start with EFI_HOB_TYPE_HANDOFF; remainingMemory := memorySize in bytes.
HobHandoff ==
    /\ hobPc = "handoff"
    /\ tdHob' = tdHob \o hobHandoff
    /\ remainingMemory' = MemoryBytes(hobMem)
    /\ hobPc' = "fixed"
    /\ UNCHANGED <<hobMem, hobMeta, tdHobBaseAddr, hobK, hobOut>>
    /\ UNCHANGED notHobVars

\* One of the seven unconditional addMemoryResourceHob calls.
HobAddFixed ==
    /\ hobPc = "fixed"
    /\ LET r == FixedResources[hobK + 1]
       IN  /\ tdHob' = tdHob \o ResourceHob(r[1], r[2], r[3])
           /\ remainingMemory' = WSub(remainingMemory, r[3])
    /\ hobK' = hobK + 1
    /\ hobPc' = IF hobK + 1 = Len(FixedResources) THEN "split" ELSE "fixed"
    /\ UNCHANGED <<hobMem, hobMeta, tdHobBaseAddr, hobOut>>
    /\ UNCHANGED notHobVars

\* Handle memory split at 2816 MiB: one or two more descriptors, which take
\* all that remains.
HobSplit ==
    /\ hobPc = "split"
    /\ tdHob' = tdHob \o SplitResources(hobMem, remainingMemory)
    /\ remainingMemory' =
          IF WLe(LE(memorySplitMiB, 8), hobMem)
          THEN WSub(WSub(remainingMemory, hobLowLength),
                    WSub(remainingMemory, hobLowLength))
          ELSE WSub(remainingMemory, remainingMemory)
    /\ hobPc' = "end"
    /\ UNCHANGED <<hobMem, hobMeta, tdHobBaseAddr, hobK, hobOut>>
    /\ UNCHANGED notHobVars

\* Update EfiEndOfHobList.
HobUpdateEnd ==
    /\ hobPc = "end"
    /\ tdHob' = UpdateEndOfHobList(tdHob, tdHobBaseAddr)
    /\ hobPc' = "measure"
    /\ UNCHANGED <<hobMem, hobMeta, tdHobBaseAddr, remainingMemory, hobK, hobOut>>
    /\ UNCHANGED notHobVars

\* return measureSha384(tdHob)
HobReturn ==
    /\ hobPc = "measure"
    /\ hobOut' = measureSha384(tdHob)
    /\ hobPc' = "done"
    /\ UNCHANGED <<hobMem, hobMeta, tdHob, tdHobBaseAddr, remainingMemory, hobK>>
    /\ UNCHANGED notHobVars

HobNext ==
    \/ HobDiscoverBase
    \/ HobHandoff
    \/ HobAddFixed
    \/ HobSplit
    \/ HobUpdateEnd
    \/ HobReturn

SpecHob == HobInit /\ [][HobNext]_vars

---------------------------------------------------------------------------
(* Properties of the TD HOB                                                *)

\* The memoryAddress of the first section of type 0x02 in descriptor order,
\* or 0x809000 when there is none or there is no metadata.
FirstTdHobAddress(meta) ==
    LET hobs == { i \in 1..Len(meta.sections) :
                    meta.sections[i].secType = << 2, 0, 0, 0 >> }
    IN  IF meta.isNil \/ hobs = { } THEN << 0, 144, 128, 0, 0, 0, 0, 0 >>
        ELSE meta.sections[CHOOSE i \in hobs : \A j \in hobs : i <= j].memoryAddress

\* C10: once EfiEndOfHobList has been updated, bytes 48..56 of the TD HOB hold
\* little-endian tdHobBaseAddr + len(tdHob) + 8 (a 64-bit sum), tdHobBaseAddr
\* being the address of the first TD_HOB section or 0x809000.
C10_EndOfHobList ==
    hobPc \in { "measure", "done" } =>
        /\ SubSeq(tdHob, 49, 56)
             = WAdd(FirstTdHobAddress(hobMeta), LE(Len(tdHob) + 8, 8))
        /\ hobPc = "done" => hobOut = measureSha384(tdHob)

\* A measured HOB whose metadata has two TD_HOB sections at different
\* addresses, for a memory size above the split.
C10_Witness ==
    /\ hobPc = "done" /\ Len(hobMeta.sections) = 2
    /\ hobMeta.sections[1].secType = << 2, 0, 0, 0 >>
    /\ hobMeta.sections[2].secType = << 2, 0, 0, 0 >>
    /\ hobMeta.sections[1].memoryAddress # hobMeta.sections[2].memoryAddress
    /\ Len(tdHob) = 56 + 9 * 48

\* n * 2^20 as a uint64: a shift left by two bytes and four bits.
ShiftMiB(n) ==
    [ i \in 1..8 |->
        IF i <= 2 THEN 0
        ELSE ((n[i - 2] * 16) % 256) + (IF i > 3 THEN n[i - 3] \div 16 ELSE 0) ]

\* The k-th 48-byte record after the 56-byte handoff header, and its fields.
HobRecordAt(k) == SubSeq(tdHob, 57 + 48 * (k - 1), 56 + 48 * k)
HobRecordIs(k, type, start, length) ==
    /\ SubSeq(HobRecordAt(k), 1, 4) = << 3, 0, 48, 0 >>
    /\ SubSeq(HobRecordAt(k), 25, 28) = << type, 0, 0, 0 >>
    /\ SubSeq(HobRecordAt(k), 33, 40) = start
    /\ SubSeq(HobRecordAt(k), 41, 48) = length

SevenFixedRecords ==
    /\ HobRecordIs(1, 7, << 0, 0, 0, 0, 0, 0, 0, 0 >>, << 0, 0, 128, 0, 0, 0, 0, 0 >>)
    /\ HobRecordIs(2, 0, << 0, 0, 128, 0, 0, 0, 0, 0 >>, << 0, 96, 0, 0, 0, 0, 0, 0 >>)
    /\ HobRecordIs(3, 7, << 0, 96, 128, 0, 0, 0, 0, 0 >>, << 0, 48, 0, 0, 0, 0, 0, 0 >>)
    /\ HobRecordIs(4, 0, << 0, 144, 128, 0, 0, 0, 0, 0 >>, << 0, 32, 0, 0, 0, 0, 0, 0 >>)
    /\ HobRecordIs(5, 0, << 0, 176, 128, 0, 0, 0, 0, 0 >>, << 0, 32, 0, 0, 0, 0, 0, 0 >>)
    /\ HobRecordIs(6, 7, << 0, 208, 128, 0, 0, 0, 0, 0 >>, << 0, 64, 0, 0, 0, 0, 0, 0 >>)
    /\ HobRecordIs(7, 0, << 0, 16, 129, 0, 0, 0, 0, 0 >>, << 0, 240, 0, 0, 0, 0, 0, 0 >>)

\* memorySize >= 2816, on the bytes of the uint64.
AtLeast2816(n) ==
    \/ \E i \in 3..8 : n[i] # 0
    \/ n[2] * 256 + n[1] >= 2816

\* C11: the finished TD HOB is the 56-byte handoff header (type 1, length 56,
\* version 9) followed by the seven fixed 48-byte resource records, then for
\* memorySize >= 2816 the records (7, 0x820000, 0x7F7E0000) and
\* (7, 0x100000000, memorySize * 2^20 - 0x80000000), otherwise the one record
\* (7, 0x820000, memorySize * 2^20 - 0x820000): what remains, as a uint64,
\* after the lengths of all earlier records.
C11_TdHobRecords ==
    hobPc \in { "end", "measure", "done" } =>
        /\ SubSeq(tdHob, 1, 12) = << 1, 0, 56, 0, 0, 0, 0, 0, 9, 0, 0, 0 >>
        /\ SevenFixedRecords
        /\ IF AtLeast2816(hobMem)
           THEN /\ Len(tdHob) = 56 + 9 * 48
                /\ HobRecordIs(8, 7, << 0, 0, 130, 0, 0, 0, 0, 0 >>,
                               << 0, 0, 126, 127, 0, 0, 0, 0 >>)
                /\ HobRecordIs(9, 7, << 0, 0, 0, 0, 1, 0, 0, 0 >>,
                               WSub(ShiftMiB(hobMem), << 0, 0, 0, 128, 0, 0, 0, 0 >>))
           ELSE /\ Len(tdHob) = 56 + 8 * 48
                /\ HobRecordIs(8, 7, << 0, 0, 130, 0, 0, 0, 0, 0 >>,
                               WSub(ShiftMiB(hobMem), << 0, 0, 130, 0, 0, 0, 0, 0 >>))

\* A measured TD HOB for 4096 MiB: nine records, the last one 2 GiB long.
C11_Witness ==
    /\ hobPc = "done" /\ hobMem = << 0, 16, 0, 0, 0, 0, 0, 0 >>
    /\ Len(tdHob) = 56 + 9 * 48
    /\ SubSeq(HobRecordAt(9), 41, 48) = << 0, 0, 0, 128, 0, 0, 0, 0 >>

\* The start and the length of the k-th resource record, zero-extended to 12
\* bytes so that sums of 64-bit numbers do not wrap, and the number of records.
HobRecordCount == (Len(tdHob) - 56) \div 48
HobStartWide(k) == SubSeq(HobRecordAt(k), 33, 40) \o << 0, 0, 0, 0 >>
HobLengthWide(k) == SubSeq(HobRecordAt(k), 41, 48) \o << 0, 0, 0, 0 >>
RECURSIVE HobLengthSum(_)
HobLengthSum(k) ==
    IF k = 0 THEN << 0, 0, 0, 0, 0, 0, 0, 0, 0, 0, 0, 0 >>
    ELSE WAdd(HobLengthSum(k - 1), HobLengthWide(k))
\* memorySize * 1048576 over the integers, in 12 bytes.
MemoryBytesWide == WMul(WMul(hobMem \o << 0, 0, 0, 0 >>, 1024), 1024)
\* Below 4 GiB: bytes 5 and up are zero.
StartsBelow4GiB(k) == \A i \in 5..12 : HobStartWide(k)[i] = 0

\* C28: the lengths of the resource records of a finished TD HOB add up to
\* memorySize * 1048576 over the integers (no length is a wrapped remainder),
\* and every record that starts below 4 GiB starts where the record before it
\* ends.
C28_LengthsSumToMemory ==
    hobPc \in { "end", "measure", "done" } =>
        /\ HobLengthSum(HobRecordCount) = MemoryBytesWide
        /\ \A k \in 2..HobRecordCount :
              StartsBelow4GiB(k) =>
                  HobStartWide(k) = WAdd(HobStartWide(k - 1), HobLengthWide(k - 1))

---------------------------------------------------------------------------
(* EFI variable events, GUIDs and the kernel command line                  *)

\* A GUID string is held as its five atoms (the parts between the dashes),
\* each already hex-decoded to bytes.
Reverse(s) == [ i \in 1..Len(s) |-> s[Len(s) + 1 - i] ]

\* encodeGUID: atoms 0..2 byte-reversed (little-endian), the rest as they are.
RECURSIVE encodeGUIDFrom(_, _)
encodeGUIDFrom(atoms, idx) ==
    IF idx >= Len(atoms) THEN << >>
    ELSE (IF idx <= 2 THEN Reverse(atoms[idx + 1]) ELSE atoms[idx + 1])
         \o encodeGUIDFrom(atoms, idx + 1)

\* The GUID encoding with every atom as it is written.
encodeGUIDAsWritten(atoms) ==
    atoms[1] \o atoms[2] \o atoms[3] \o atoms[4] \o atoms[5]

encodeGUID(atoms) == encodeGUIDFrom(atoms, 0)

\* "8BE4DF61-93CA-11D2-AA0D-00E098032B8C" (EFI global variable)
efiGlobalVariableGUID ==
    << << 139, 228, 223, 97 >>, << 147, 202 >>, << 17, 210 >>, << 170, 13 >>,
       << 0, 224, 152, 3, 43, 140 >> >>
\* "D719B2CB-3D3A-4596-A3BC-DAD00E67656F" (EFI image security database)
efiImageSecurityDatabaseGUID ==
    << << 215, 25, 178, 203 >>, << 61, 58 >>, << 69, 150 >>, << 163, 188 >>,
       << 218, 208, 14, 103, 101, 111 >> >>

\* The variable names, in ASCII.
NameSecureBoot == << 83, 101, 99, 117, 114, 101, 66, 111, 111, 116 >>
NamePK == << 80, 75 >>
NameKEK == << 75, 69, 75 >>
Namedb == << 100, 98 >>
Namedbx == << 100, 98, 120 >>

\* The UTF-16LE encoder on ASCII text: every byte followed by a zero byte.
Utf16le(s) == [ i \in 1..(2 * Len(s)) |-> IF i % 2 = 1 THEN s[(i + 1) \div 2] ELSE 0 ]

\* measureTdxEfiVariable: GUID, len(varName) and 0 as uint64, name in UTF-16LE.
EfiVariableData(vendorGUID, varName) ==
    encodeGUID(vendorGUID) \o LE(Len(varName), 8) \o LE(0, 8) \o Utf16le(varName)
measureTdxEfiVariable(vendorGUID, varName) ==
    measureSha384(EfiVariableData(vendorGUID, varName))

\* measureTdxKernelCmdline: the command line and a NUL byte, in UTF-16LE.
measureTdxKernelCmdline(cmdline) == measureSha384(Utf16le(cmdline \o << 0 >>))

---------------------------------------------------------------------------
(* parseTdvfMetadata                                                       *)

\* tdxMetadataOffsetGUID = "e47a6535-984a-4798-865e-4685a7bf8ec2"
tdxMetadataOffsetGUID ==
    << << 228, 122, 101, 53 >>, << 152, 74 >>, << 71, 152 >>, << 134, 94 >>,
       << 70, 133, 167, 191, 142, 194 >> >>
\* tableFooterGUID = "96b582de-1fb2-45f7-baea-a366c55a082d"
tableFooterGUID ==
    << << 150, 181, 130, 222 >>, << 31, 178 >>, << 69, 247 >>, << 186, 234 >>,
       << 163, 102, 197, 90, 8, 45 >> >>
tdxMetadataVersion == 1
tdvfSignature == << 84, 68, 86, 70 >>
bytesAfterTableFooter == 32

\* f[lo:hi] (Go indices) for a slice of the firmware: in range up to the
\* capacity, zero past the length.
FwSlice(f, lo, hi) == [ i \in 1..(hi - lo) |-> IF lo + i <= Len(f) THEN f[lo + i] ELSE 0 ]
\* binary.LittleEndian.Uint16(f[lo:lo+2])
FwUint16(f, lo) == FwSlice(f, lo, lo + 2)[1] + 256 * FwSlice(f, lo, lo + 2)[2]

\* What parseTdvfMetadata does: returns metadata ("ok"), returns an error
\* ("error"), panics on a slice out of range ("panic") or never returns
\* ("hang").
ParseOutcome(status, msg, secs) == [ status |-> status, msg |-> msg, sections |-> secs ]

\* s := &tdvfSection{...} from the 32 bytes of a section entry.
DecodeSection(secData) ==
    tdvfSection(SubSeq(secData, 1, 4), SubSeq(secData, 5, 8), SubSeq(secData, 9, 16),
                SubSeq(secData, 17, 24), SubSeq(secData, 25, 28), SubSeq(secData, 29, 32))

\* The sanity check without its last condition.
SectionErrorNoExtend(s) ==
    IF WMod(s.memoryAddress, pageSize) # 0 THEN "non-aligned memory address"
    ELSE IF WLt(s.memoryDataSize, WResize(s.rawDataSize, 8))
    THEN "memory data size is less than raw data size"
    ELSE IF WMod(s.memoryDataSize, pageSize) # 0 THEN "non-aligned memory data size"
    ELSE ""

\* Sanity check section: the error it fails with, or "".
SectionError(s) ==
    IF WMod(s.memoryAddress, pageSize) # 0 THEN "non-aligned memory address"
    ELSE IF WLt(s.memoryDataSize, WResize(s.rawDataSize, 8))
    THEN "memory data size is less than raw data size"
    ELSE IF WMod(s.memoryDataSize, pageSize) # 0 THEN "non-aligned memory data size"
    ELSE IF HasAttr(s, attributeMrExtend) /\ WLt(WResize(s.rawDataSize, 8), s.memoryDataSize)
    THEN "raw data size is less than memory data size"
    ELSE ""

\* Parse section entries: for section := range tdvfNumberOfSectionEntries.
RECURSIVE ParseSections(_, _, _, _, _)
ParseSections(f, tdvfMetaOffset, num, section, acc) ==
    IF WIsSmall(num) /\ section >= WVal(num) THEN ParseOutcome("ok", "", acc)
    ELSE LET secOffset == tdvfMetaOffset + 16 + 32 * section
         IN  IF secOffset + 32 > FwCap(f) THEN ParseOutcome("panic", "", << >>)
             ELSE LET s == DecodeSection(FwSlice(f, secOffset, secOffset + 32))
                  IN  IF SectionError(s) # ""
                      THEN ParseOutcome("error", SectionError(s), << >>)
                      ELSE ParseSections(f, tdvfMetaOffset, num, section + 1,
                                         Append(acc, s))

\* Extract and parse TDVF metadata descriptor; data is f[dataLo:dataHi].
ParseDescriptor(f, dataLo, dataHi) ==
    IF dataHi - dataLo < 4 THEN ParseOutcome("panic", "", << >>)
    ELSE LET back == FwSlice(f, dataHi - 4, dataHi)
         IN  IF ~WIsSmall(back) \/ WVal(back) > Len(f)
                \/ Len(f) - WVal(back) + 16 > FwCap(f)
             THEN ParseOutcome("panic", "", << >>)
             ELSE LET tdvfMetaOffset == Len(f) - WVal(back)
                      tdvfMetaDesc == FwSlice(f, tdvfMetaOffset, tdvfMetaOffset + 16)
                  IN  IF SubSeq(tdvfMetaDesc, 1, 4) # tdvfSignature
                      THEN ParseOutcome("error", "malformed TDVF metadata descriptor", << >>)
                      ELSE IF SubSeq(tdvfMetaDesc, 9, 12) # LE(tdxMetadataVersion, 4)
                      THEN ParseOutcome("error", "unsupported TDVF metadata descriptor version", << >>)
                      ELSE ParseSections(f, tdvfMetaOffset,
                                         SubSeq(tdvfMetaDesc, 13, 16), 0, << >>)

\* Find TDVF metadata table in OVMF, starting at the end; tables is
\* f[base : base+tablesLen] and offset an index into it.
RECURSIVE FindMetadataEntry(_, _, _)
FindMetadataEntry(f, base, offset) ==
    IF offset < 18 THEN ParseOutcome("error", "missing TDVF metadata in firmware", << >>)
    ELSE LET guid == FwSlice(f, base + offset - 16, base + offset)
             entryLen == FwUint16(f, base + offset - 18)
         IN  IF offset < 18 + entryLen
             THEN ParseOutcome("error", "malformed OVMF table in firmware", << >>)
             ELSE IF guid = encodeGUID(tdxMetadataOffsetGUID)
             THEN ParseDescriptor(f, base + offset - 18 - entryLen, base + offset - 18)
             ELSE IF entryLen = 0 THEN ParseOutcome("hang", "", << >>)
             ELSE FindMetadataEntry(f, base, offset - entryLen)

parseTdvfMetadata(f) ==
    LET offset == Len(f) - bytesAfterTableFooter
    IN  IF offset - 16 - 2 < 0 THEN ParseOutcome("panic", "", << >>)
        ELSE LET guid == FwSlice(f, offset - 16, offset)
                 tablesLen == FwUint16(f, offset - 16 - 2)
             IN  IF guid # encodeGUID(tableFooterGUID)
                 THEN ParseOutcome("error", "malformed OVMF table footer", << >>)
                 ELSE IF tablesLen = 0 \/ tablesLen > offset - 16 - 2
                 THEN ParseOutcome("error", "malformed OVMF table footer", << >>)
                 ELSE FindMetadataEntry(f, offset - 16 - 2 - tablesLen, tablesLen)

---------------------------------------------------------------------------
(* computeMrtd and GenerateTablesQemu2 as functions of their arguments     *)

\* The writes of one section in the two orders: all memPageAdd then all
\* mrExtend (two-pass), or memPageAdd and mrExtend page by page (single pass).
RECURSIVE AddWrites(_, _, _)
AddWrites(si, page, n) ==
    IF page >= n THEN << >> ELSE memPageAdd(si, page) \o AddWrites(si, page + 1, n)
RECURSIVE ExtendWrites(_, _, _)
ExtendWrites(si, page, n) ==
    IF page >= n THEN << >> ELSE mrExtend(si, page) \o ExtendWrites(si, page + 1, n)
RECURSIVE PageByPageWrites(_, _, _)
PageByPageWrites(si, page, n) ==
    IF page >= n THEN << >>
    ELSE memPageAdd(si, page) \o mrExtend(si, page) \o PageByPageWrites(si, page + 1, n)

SectionWrites(si, variant) ==
    IF IsTwoPass(variant)
    THEN AddWrites(si, 0, NumPages(sections[si]))
         \o ExtendWrites(si, 0, NumPages(sections[si]))
    ELSE PageByPageWrites(si, 0, NumPages(sections[si]))

RECURSIVE computeMrtdWritesFrom(_, _)
computeMrtdWritesFrom(si, variant) ==
    IF si > Len(sections) THEN << >>
    ELSE SectionWrites(si, variant) \o computeMrtdWritesFrom(si + 1, variant)

\* Everything computeMrtd writes to h for the metadata in sections.
computeMrtdWrites(variant) == computeMrtdWritesFrom(1, variant)

\* computeMrtd panics: unknown variant, or a chunk read out of range.
computeMrtdPanics(variant) ==
    \E si \in 1..Len(sections) :
        \/ ~IsKnownVariant(variant)
        \/ \E page \in 0..(NumPages(sections[si]) - 1) : ~mrExtendInRange(si, page)

\* The six findAcpiTable calls: the tables in the order of RequiredTables,
\* or the first error.
RECURSIVE FindTablesFrom(_, _, _)
FindTablesFrom(t, k, acc) ==
    IF k > Len(RequiredTables) THEN [ err |-> "", tabs |-> acc ]
    ELSE LET r == findAcpiTable(t, RequiredTables[k])
         IN  IF r.err # "" THEN [ err |-> r.err, tabs |-> << >> ]
             ELSE FindTablesFrom(t, k + 1, Append(acc, r))

RECURSIVE AppendCommandsFrom(_, _, _)
AppendCommandsFrom(data, cmds, k) ==
    IF k > Len(cmds) THEN data
    ELSE AppendCommandsFrom(qemuLoaderAppend(data, cmds[k]), cmds, k + 1)

AcpiOutcome(status, tables, r, l) ==
    [ status |-> status, tables |-> tables, rsdp |-> r, loader |-> l ]

\* GenerateTablesQemu2: "ok" with the three blobs, "error" or "panic".
GenerateTablesQemu2(m, n) ==
    IF ~HasTemplate(n) THEN AcpiOutcome("error", << >>, << >>, << >>)
    ELSE LET found == FindTablesFrom(Template(n), 1, << >>)
         IN  IF found.err # "" THEN AcpiOutcome("error", << >>, << >>, << >>)
             ELSE IF PatchDsdtPanics(Template(n), found.tabs[1].length)
             THEN AcpiOutcome("panic", << >>, << >>, << >>)
             ELSE AcpiOutcome("ok",
                      PatchDsdt(Template(n), found.tabs[1].length, m),
                      BuildRsdp(found.tabs[6].offset),
                      PadLoader(AppendCommandsFrom(<< >>, LoaderCommands(found.tabs), 1)))

\* measureTdxQemuAcpiTables: the three digests, in the order it returns them.
measureTdxQemuAcpiTables(m, n) ==
    LET g == GenerateTablesQemu2(m, n)
    IN  IF g.status # "ok"
        THEN [ status |-> g.status, tables |-> << >>, rsdp |-> << >>, loader |-> << >> ]
        ELSE [ status |-> "ok", tables |-> measureSha384(g.tables),
               rsdp |-> measureSha384(g.rsdp), loader |-> measureSha384(g.loader) ]

---------------------------------------------------------------------------
(* measureTdxQemuKernelImage: the kernel patcher                           *)

minKernelLength == 4096

\* A length check that lets every buffer of 1 KiB or more through.
KernelTooShortBelow1024(kernel) == Len(kernel) < 1024

\* if len(kernelData) < minKernelLength
KernelTooShort(kernel) == Len(kernel) < minKernelLength

\* kd with the bytes v written at Go index off.
PutBytes(kd, off, v) ==
    [ i \in 1..Len(kd) |-> IF i > off /\ i <= off + Len(v) THEN v[i - off] ELSE kd[i] ]

\* protocol := uint16(kd[0x206]) + (uint16(kd[0x207]) << 8)
KernelProtocol(kd) == kd[519] + 256 * kd[520]

\* The addresses chosen from the protocol version alone.
IsRecentKernelAnyFlags(kd) == KernelProtocol(kd) >= 514

\* High and recent kernel: protocol >= 0x202 with LOADED_HIGH set.
IsRecentKernel(kd) ==
    ~(KernelProtocol(kd) < 512 \/ kd[530] % 2 = 0) /\ ~(KernelProtocol(kd) < 514)
realAddr(kd) == IF IsRecentKernel(kd) THEN 65536 ELSE 589824
cmdlineAddr(kd) == IF IsRecentKernel(kd) THEN 131072 ELSE 630784

\* The header patches that do not depend on the initrd.
PatchLoader(kd) ==
    IF KernelProtocol(kd) >= 512 THEN PutBytes(kd, 528, << 176 >>) ELSE kd
\* loadflags ^= CAN_USE_HEAP in place of |=.
PatchHeapToggle(kd, orig) ==
    IF KernelProtocol(orig) >= 513
    THEN PutBytes(PutBytes(kd, 529, << kd[530] + (IF kd[530] >= 128 THEN -128 ELSE 128) >>),
                  548, LE(cmdlineAddr(orig) - realAddr(orig) - 512, 4))
    ELSE kd
PatchHeap(kd, orig) ==
    IF KernelProtocol(orig) >= 513
    THEN PutBytes(PutBytes(kd, 529, << kd[530] + (IF kd[530] >= 128 THEN 0 ELSE 128) >>),
                  548, LE(cmdlineAddr(orig) - realAddr(orig) - 512, 4))
    ELSE kd
PatchCmdline(kd, orig) ==
    IF KernelProtocol(orig) >= 514
    THEN PutBytes(kd, 552, LE(cmdlineAddr(orig), 4))
    ELSE PutBytes(PutBytes(kd, 32, << 63, 163 >>),
                  34, LE(cmdlineAddr(orig) - realAddr(orig), 2))
PatchHeader(kd) == PatchCmdline(PatchHeap(PatchLoader(kd), kd), kd)

\* initrd_max from the protocol version and the header.
InitrdMaxOf(kd) ==
    IF KernelProtocol(kd) >= 524
    THEN (IF (kd[567] \div 64) % 2 = 1 THEN << 255, 255, 255, 255 >>
          ELSE << 255, 255, 255, 55 >>)
    ELSE IF KernelProtocol(kd) >= 515
    THEN (IF SubSeq(kd, 557, 560) = Zeros(4) THEN << 255, 255, 255, 55 >>
          ELSE SubSeq(kd, 557, 560))
    ELSE << 255, 255, 255, 55 >>

\* below_4g_mem_size
Below4gMemSize(memSize) ==
    LET memSizeBytes == MemoryBytes(memSize)
        lowmem == IF WLt(memSizeBytes, B8(0, 0, 45056, 0)) THEN B4(45056, 0)
                  ELSE B4(32768, 0)
    IN  IF WLe(WResize(lowmem, 8), memSizeBytes) THEN lowmem
        ELSE WResize(memSizeBytes, 4)

\* initrd_max left as the header gives it.
AdjustedInitrdMaxNoCap(kd, memSize, acpiSize) == InitrdMaxOf(kd)

\* initrd_max adjusted to the memory below 4G and the ACPI data size.
AdjustedInitrdMax(kd, memSize, acpiSize) ==
    LET limit == WSub(Below4gMemSize(memSize), acpiSize)
    IN  IF WLe(limit, InitrdMaxOf(kd)) THEN WSub(limit, LE(1, 4)) ELSE InitrdMaxOf(kd)

\* (initrdMax - initRdSize) & ^uint32(4095)
InitrdAddr(initrdMax, initRdSize) ==
    LET d == WSub(initrdMax, initRdSize)
    IN  << 0, d[2] - (d[2] % 16), d[3], d[4] >>

\* An initrd of exactly initrdMax bytes accepted.
InitrdTooLargeStrict(initrdMax, initRdSize) == WLt(initrdMax, initRdSize)

\* if initRdSize >= initrdMax
InitrdTooLarge(initrdMax, initRdSize) == WLe(initrdMax, initRdSize)

\* authenticode.Parse accepts an image that starts with the DOS magic "MZ";
\* the digest is the authenticode hash of the patched image.
IsPeImage(kd) == Len(kd) >= 2 /\ kd[1] = 77 /\ kd[2] = 90
AuthenticodeHash(kd) == Digest("authenticode-sha384", << Raw(kd) >>)

KernelOutcome(status, kd, hash) == [ status |-> status, kd |-> kd, hash |-> hash ]

\* measureTdxQemuKernelImage(kernelData, initRdSize, memSize, acpiDataSize)
measureTdxQemuKernelImage(kernel, initRdSize, memSize, acpiSize) ==
    IF KernelTooShort(kernel)
    THEN KernelOutcome("error", << >>, << >>)
    ELSE LET kd == PatchHeader(kernel)
             initrdMax == AdjustedInitrdMax(kd, memSize, acpiSize)
             patched == IF initRdSize = Zeros(4) THEN kd
                        ELSE PutBytes(PutBytes(kd, 536, InitrdAddr(initrdMax, initRdSize)),
                                      540, initRdSize)
         IN  IF initRdSize # Zeros(4) /\ KernelProtocol(kernel) < 512
             THEN KernelOutcome("error", << >>, << >>)
             ELSE IF initRdSize # Zeros(4) /\ InitrdTooLarge(initrdMax, initRdSize)
             THEN KernelOutcome("error", << >>, << >>)
             ELSE IF ~IsPeImage(patched) THEN KernelOutcome("error", << >>, << >>)
             ELSE KernelOutcome("ok", patched, AuthenticodeHash(patched))

\* acpiDataSize passed to measureTdxQemuKernelImage (0x28000).
acpiDataSize == 163840

\* A kernel image: n bytes of filler with the boot protocol version, the
\* load flags, the xloadflags and the first two bytes set.
Kernel(n, protocol, loadflags, xlf, magic) ==
    [ i \in 1..n |->
        IF i <= 2 THEN magic[i]
        ELSE IF i = 519 THEN protocol % 256
        ELSE IF i = 520 THEN protocol \div 256
        ELSE IF i = 530 THEN loadflags
        ELSE IF i = 567 THEN xlf
        ELSE IF i \in 557..560 THEN 0
        ELSE (7 * i) % 256 ]

---------------------------------------------------------------------------
(* MeasureTdxQemuKernelImageData, statement by statement                   *)

ErrKernelTooShort == "kernel data too short"
ErrKernelTooOld == "linux kernel too old to load a ram disk"
ErrInitrdTooLarge == "initrd is too large"
ErrParsePe == "failed to parse PE file"

KernError(msg) == [ status |-> "error", msg |-> msg, hash |-> << >> ]
KernDigest(hash) == [ status |-> "ok", msg |-> "", hash |-> hash ]

\* A kernel image with initrd_addr_max (the uint32 at 0x22c) set.
KernelRamdiskMax(k, v) == PutBytes(k, 556, v)

\* Protocol versions on both sides of every comparison of the patcher.
KernProtocols == { 511, 512, 513, 514, 515, 524 }

\* Kernel images: every protocol version with LOADED_HIGH clear or set and
\* CAN_USE_HEAP clear or set, with and without XLF_CAN_BE_LOADED_ABOVE_4G and
\* with initrd_addr_max zero, 0x7FFFFFFF or 0x00100000; an image that is not
\* a PE file; buffers around the minimum length.
KernImages ==
    { Kernel(minKernelLength, p, f, 0, << 77, 90 >>) :
          p \in KernProtocols, f \in { 0, 1, 128 } }
    \cup { Kernel(minKernelLength, p, 1, 64, << 77, 90 >>) : p \in { 515, 524 } }
    \cup { KernelRamdiskMax(Kernel(minKernelLength, p, 1, 0, << 77, 90 >>), v) :
               p \in { 514, 515, 524 },
               v \in { << 255, 255, 255, 127 >>, << 0, 0, 16, 0 >> } }
    \cup { Kernel(minKernelLength, 524, 1, 64, << 127, 69 >>),
           Kernel(minKernelLength + 1, 524, 129, 64, << 77, 90 >>),
           Kernel(minKernelLength - 1, 524, 1, 64, << 77, 90 >>),
           Kernel(1024, 524, 1, 64, << 77, 90 >>),
           << >> }

\* initRdSize: none, 4 bytes, 10 MiB, 0x37FFFFFF and 2 GiB.
KernInitRdSizes ==
    { LE(0, 4), LE(4, 4), B4(160, 0), B4(14335, 65535), B4(32768, 0) }

\* memSize in MiB: 0 (parseMemorySize accepts "0M"), 1, 2048, 2816 and 4096.
KernMemSizes == { LE(0, 8), LE(1, 8), LE(2048, 8), LE(2816, 8), LE(4096, 8) }

\* How often the patcher is called on the bytes it produced.
MaxKernCalls == 2

KernInit ==
    /\ LogIdle /\ MrtdIdle /\ AcpiIdle /\ HobIdle /\ RunIdle /\ OutIdle
    /\ ParseIdle
    /\ kernData \in KernImages
    /\ kernInitRd \in KernInitRdSizes
    /\ kernMem \in KernMemSizes
    /\ kernAcpi = LE(acpiDataSize, 4)
    /\ kernKd = << >>
    /\ kernMax = LE(0, 4)
    /\ kernPc = "check"
    /\ kernOut = << >>
    /\ kernCalls = << >>

\* Check the length, then kd := make([]byte, len(kernelData)); copy(kd, kernelData).
KernCheckLength ==
    /\ kernPc = "check"
    /\ IF KernelTooShort(kernData)
       THEN /\ kernOut' = KernError(ErrKernelTooShort)
            /\ kernPc' = "error"
            /\ UNCHANGED kernKd
       ELSE /\ kernKd' = kernData
            /\ kernPc' = "header"
            /\ UNCHANGED kernOut
    /\ UNCHANGED <<kernData, kernInitRd, kernMem, kernAcpi, kernMax, kernCalls>>
    /\ UNCHANGED notKernVars

\* Read the protocol version, choose the addresses and patch type_of_loader,
\* loadflags, heap_end_ptr and cmd_line_ptr (or the old command line fields).
KernPatchHeader ==
    /\ kernPc = "header"
    /\ kernKd' = PatchHeader(kernKd)
    /\ kernPc' = IF kernInitRd # Zeros(4) THEN "initrd" ELSE "hash"
    /\ UNCHANGED <<kernData, kernInitRd, kernMem, kernAcpi, kernMax, kernOut, kernCalls>>
    /\ UNCHANGED notKernVars

\* initRdSize > 0: check the protocol version, determine initrd_max and
\* adjust it to the memory below 4G and the ACPI data size.
KernInitrdMax ==
    /\ kernPc = "initrd"
    /\ IF KernelProtocol(kernKd) < 512
       THEN /\ kernOut' = KernError(ErrKernelTooOld)
            /\ kernPc' = "error"
            /\ UNCHANGED kernMax
       ELSE /\ kernMax' = AdjustedInitrdMax(kernKd, kernMem, kernAcpi)
            /\ kernPc' = "store"
            /\ UNCHANGED kernOut
    /\ UNCHANGED <<kernData, kernInitRd, kernMem, kernAcpi, kernKd, kernCalls>>
    /\ UNCHANGED notKernVars

\* Check the initrd size, then store initrd address and size in the header.
KernInitrdStore ==
    /\ kernPc = "store"
    /\ IF InitrdTooLarge(kernMax, kernInitRd)
       THEN /\ kernOut' = KernError(ErrInitrdTooLarge)
            /\ kernPc' = "error"
            /\ UNCHANGED kernKd
       ELSE /\ kernKd' = PutBytes(PutBytes(kernKd, 536, InitrdAddr(kernMax, kernInitRd)),
                                  540, kernInitRd)
            /\ kernPc' = "hash"
            /\ UNCHANGED kernOut
    /\ UNCHANGED <<kernData, kernInitRd, kernMem, kernAcpi, kernMax, kernCalls>>
    /\ UNCHANGED notKernVars

\* authenticode.Parse(kd) and parsed.Hash(crypto.SHA384)
KernHash ==
    /\ kernPc = "hash"
    /\ IF IsPeImage(kernKd)
       THEN kernOut' = KernDigest(AuthenticodeHash(kernKd)) /\ kernPc' = "done"
       ELSE kernOut' = KernError(ErrParsePe) /\ kernPc' = "error"
    /\ UNCHANGED <<kernData, kernInitRd, kernMem, kernAcpi, kernKd, kernMax, kernCalls>>
    /\ UNCHANGED notKernVars

\* The patcher called again, with the same sizes, on the bytes a successful
\* call produced.
KernCallAgain ==
    /\ kernPc = "done"
    /\ Len(kernCalls) + 1 < MaxKernCalls
    /\ kernCalls' = Append(kernCalls, [ kd |-> kernKd, out |-> kernOut ])
    /\ kernData' = kernKd
    /\ kernKd' = << >>
    /\ kernMax' = LE(0, 4)
    /\ kernOut' = << >>
    /\ kernPc' = "check"
    /\ UNCHANGED <<kernInitRd, kernMem, kernAcpi>>
    /\ UNCHANGED notKernVars

KernNext ==
    \/ KernCheckLength
    \/ KernPatchHeader
    \/ KernInitrdMax
    \/ KernInitrdStore
    \/ KernHash
    \/ KernCallAgain

SpecKernel == KernInit /\ [][KernNext]_vars

---------------------------------------------------------------------------
(* Properties of the kernel patcher                                        *)

\* C12: a call on a kernel buffer shorter than 0x1000 bytes ends with the
\* error "kernel data too short" and no digest, without a copy of the
\* buffer having been made or initrd_max computed; a call on a longer
\* buffer does not end with that error.
C12_KernelTooShort ==
    kernPc # "check" =>
        IF Len(kernData) < 4096
        THEN /\ kernPc = "error"
             /\ kernOut = [ status |-> "error", msg |-> "kernel data too short",
                            hash |-> << >> ]
             /\ kernKd = << >>
             /\ kernMax = << 0, 0, 0, 0 >>
        ELSE /\ Len(kernKd) = Len(kernData)
             /\ kernOut # << >> => kernOut.msg # "kernel data too short"

\* A buffer one byte short of the minimum, rejected.
C12_Witness ==
    /\ kernPc = "error" /\ Len(kernData) = 4095
    /\ kernOut.msg = "kernel data too short"

\* The header fields of the kernel the call was given.
GivenProtocol == kernData[519] + 256 * kernData[520]
GivenLoadedHigh == kernData[530] % 2 = 1
HighAndRecent == GivenProtocol >= 514 /\ GivenLoadedHigh
HeaderPatched == kernKd # << >> /\ kernPc # "header"

\* C13: once the header has been patched, with (realAddr, cmdlineAddr) =
\* (0x10000, 0x20000) exactly when protocol >= 0x202 and bit 0 of kd[0x211]
\* is set and (0x90000, 0x9a000) otherwise: kd[0x210] is 0xB0 iff protocol
\* >= 0x200; bit 0x80 of kd[0x211] is set and the u32 at 0x224 is
\* cmdlineAddr - realAddr - 0x200 iff protocol >= 0x201; the u32 at 0x228 is
\* cmdlineAddr if protocol >= 0x202, else the u16 at 0x20 is 0xA33F and the
\* u16 at 0x22 is cmdlineAddr - realAddr; the fields not written are as given.
C13_HeaderPatch ==
    HeaderPatched =>
        /\ kernKd[529] = (IF GivenProtocol >= 512 THEN 176 ELSE kernData[529])
        /\ IF GivenProtocol >= 513
           THEN /\ kernKd[530] >= 128
                /\ kernKd[530] % 128 = kernData[530] % 128
                /\ SubSeq(kernKd, 549, 552)
                     = (IF HighAndRecent THEN << 0, 254, 0, 0 >> ELSE << 0, 158, 0, 0 >>)
           ELSE /\ kernKd[530] = kernData[530]
                /\ SubSeq(kernKd, 549, 552) = SubSeq(kernData, 549, 552)
        /\ IF GivenProtocol >= 514
           THEN /\ SubSeq(kernKd, 553, 556)
                     = (IF HighAndRecent THEN << 0, 0, 2, 0 >> ELSE << 0, 160, 9, 0 >>)
                /\ SubSeq(kernKd, 33, 36) = SubSeq(kernData, 33, 36)
           ELSE /\ SubSeq(kernKd, 33, 36) = << 63, 163, 0, 160 >>
                /\ SubSeq(kernKd, 553, 556) = SubSeq(kernData, 553, 556)

\* A protocol 0x202 kernel without LOADED_HIGH, patched with the low
\* addresses and measured.
C13_Witness ==
    /\ kernPc = "done" /\ kernCalls = << >>
    /\ GivenProtocol = 514 /\ ~GivenLoadedHigh
    /\ SubSeq(kernKd, 553, 556) = << 0, 160, 9, 0 >>

\* initrd_max as the header gives it.
HeaderInitrdMax ==
    IF GivenProtocol >= 524
    THEN (IF (kernData[567] \div 64) % 2 = 1 THEN << 255, 255, 255, 255 >>
          ELSE << 255, 255, 255, 55 >>)
    ELSE IF GivenProtocol < 515 \/ SubSeq(kernData, 557, 560) = << 0, 0, 0, 0 >>
    THEN << 255, 255, 255, 55 >>
    ELSE SubSeq(kernData, 557, 560)

\* below4g = min(lowmem, memBytes), lowmem being 0xB0000000 when memBytes is
\* below that and 0x80000000 otherwise.
MemBytes == ShiftMiB(kernMem)
Lowmem ==
    IF WLt(MemBytes, << 0, 0, 0, 176, 0, 0, 0, 0 >>) THEN << 0, 0, 0, 176 >>
    ELSE << 0, 0, 0, 128 >>
Below4g ==
    IF WLt(MemBytes, Lowmem \o << 0, 0, 0, 0 >>) THEN SubSeq(MemBytes, 1, 4)
    ELSE Lowmem

\* initrd_max after the cap by memory and ACPI data size.
CappedInitrdMax ==
    IF WLe(WSub(Below4g, kernAcpi), HeaderInitrdMax)
    THEN WSub(WSub(Below4g, kernAcpi), << 1, 0, 0, 0 >>)
    ELSE HeaderInitrdMax

\* x & ~0xFFF on a uint32.
ClearLow12(x) == << 0, (x[2] \div 16) * 16, x[3], x[4] >>

InitrdStored == kernInitRd # << 0, 0, 0, 0 >> /\ kernPc \in { "hash", "done" }

\* C14: when initRdSize > 0 and the initrd has been stored, initrdMax is the
\* header's value (0xFFFFFFFF, 0x37FFFFFF or the u32 at 0x22C, by protocol
\* and xloadflags) capped to below4g - acpiDataSize - 1 when it is not below
\* below4g - acpiDataSize; the u32 at 0x218 is (initrdMax - initRdSize) &
\* ~0xFFF and the u32 at 0x21C is initRdSize.
C14_InitrdMax ==
    InitrdStored =>
        /\ kernMax = CappedInitrdMax
        /\ SubSeq(kernKd, 537, 540) = ClearLow12(WSub(CappedInitrdMax, kernInitRd))
        /\ SubSeq(kernKd, 541, 544) = kernInitRd

\* Memory 4G, protocol 0x20C with XLF_CAN_BE_LOADED_ABOVE_4G, initrd 10 MiB:
\* initrdMax 0x7FFD7FFF and initrd address 0x7F5D7000.
C14_Witness ==
    /\ kernPc = "done" /\ kernInitRd = << 0, 0, 160, 0 >>
    /\ kernMem = << 0, 16, 0, 0, 0, 0, 0, 0 >>
    /\ GivenProtocol = 524 /\ (kernData[567] \div 64) % 2 = 1
    /\ kernMax = << 255, 127, 253, 127 >>
    /\ SubSeq(kernKd, 537, 540) = << 0, 112, 93, 127 >>

\* C15: with initRdSize > 0 a call on a long enough kernel ends with an
\* error and no digest when protocol < 0x200, and when initRdSize >=
\* initrdMax (after the cap); with initRdSize = 0 it ends with neither error
\* and the fields at 0x218 and 0x21C are as in the input.
C15_InitrdFailures ==
    /\ ( /\ kernInitRd # << 0, 0, 0, 0 >> /\ Len(kernData) >= 4096
         /\ kernPc \notin { "check", "header", "initrd" } )
        => IF GivenProtocol < 512
           THEN /\ kernPc = "error"
                /\ kernOut = [ status |-> "error", hash |-> << >>,
                               msg |-> "linux kernel too old to load a ram disk" ]
           ELSE ( kernPc # "store" /\ WLe(CappedInitrdMax, kernInitRd) )
                    => /\ kernPc = "error"
                       /\ kernOut = [ status |-> "error", hash |-> << >>,
                                      msg |-> "initrd is too large" ]
    /\ kernInitRd = << 0, 0, 0, 0 >>
        => /\ kernOut # << >>
              => kernOut.msg \notin { "linux kernel too old to load a ram disk",
                                      "initrd is too large" }
           /\ kernKd # << >>
              => SubSeq(kernKd, 537, 544) = SubSeq(kernData, 537, 544)

\* An initrd of exactly initrdMax bytes (0x37FFFFFF), refused.
C15_Witness ==
    /\ kernPc = "error" /\ kernOut.msg = "initrd is too large"
    /\ kernInitRd = << 255, 255, 255, 55 >> /\ kernMax = kernInitRd

\* C16: a call on the bytes a successful call produced, with the same
\* sizes, succeeds and produces the same bytes and the same digest.
C16_PatchIdempotent ==
    ( Len(kernCalls) >= 1 /\ kernPc \in { "done", "error" } ) =>
        /\ kernPc = "done"
        /\ kernKd = kernCalls[Len(kernCalls)].kd
        /\ kernOut = kernCalls[Len(kernCalls)].out

\* A second call that stored an initrd in a kernel that had CAN_USE_HEAP
\* clear before the first call.
C16_Witness ==
    /\ Len(kernCalls) = 1 /\ kernPc = "done"
    /\ kernInitRd # << 0, 0, 0, 0 >>
    /\ kernData[530] >= 128 /\ GivenProtocol = 513

\* The values of the claim below as integers of five bytes, wide enough for
\* the sum of two uint32 values.
StoredInitrdAddr == SubSeq(kernKd, 537, 540)
InitrdEndWide == WAdd(WResize(StoredInitrdAddr, 5), WResize(kernInitRd, 5))
InitrdMaxPlusAcpiWide == WAdd(WResize(kernMax, 5), WResize(kernAcpi, 5))

\* C29: when initRdSize > 0 and the initrd has been stored, the address at
\* 0x218 is a multiple of 4096 and, over the integers, initrdAddr +
\* initRdSize <= initrdMax and initrdMax < below4g - acpiDataSize (that is,
\* initrdMax + acpiDataSize < below4g: the subtraction did not wrap).
C29_InitrdBelowAcpiData ==
    InitrdStored =>
        /\ StoredInitrdAddr[1] = 0 /\ StoredInitrdAddr[2] % 16 = 0
        /\ WLe(InitrdEndWide, WResize(kernMax, 5))
        /\ WLt(InitrdMaxPlusAcpiWide, WResize(Below4g, 5))

---------------------------------------------------------------------------
(* The composite digests: main's -mrkp flag, CalculateMrAggregated and     *)
(* CalculateMrImage                                                        *)

\* A Go string is a sequence of one-character strings.
AliasSgxV0 == << "s", "g", "x", "-", "v", "0" >>
AliasNone == << "n", "o", "n", "e" >>
\* "0x4888adb026ff91c1320c4f544a9f5d9e0561e13fc64947a10aa1556d0071b2cc"
ValueSgxV0 ==
    << "0", "x" >> \o
        << "4", "8", "8", "8", "a", "d", "b", "0", "2", "6", "f", "f", "9", "1", "c", "1",
      "3", "2", "0", "c", "4", "f", "5", "4", "4", "a", "9", "f", "5", "d", "9", "e",
      "0", "5", "6", "1", "e", "1", "3", "f", "c", "6", "4", "9", "4", "7", "a", "1",
      "0", "a", "a", "1", "5", "5", "6", "d", "0", "0", "7", "1", "b", "2", "c", "c" >>
\* "0x3369c4d32b9f1320ebba5ce9892a283127b7e96e1d511d7f292e5d9ed2c10b8c"
ValueNone ==
    << "0", "x" >> \o
        << "3", "3", "6", "9", "c", "4", "d", "3", "2", "b", "9", "f", "1", "3", "2", "0",
      "e", "b", "b", "a", "5", "c", "e", "9", "8", "9", "2", "a", "2", "8", "3", "1",
      "2", "7", "b", "7", "e", "9", "6", "e", "1", "d", "5", "1", "1", "d", "7", "f",
      "2", "9", "2", "e", "5", "d", "9", "e", "d", "2", "c", "1", "0", "b", "8", "c" >>

\* var knownKeyProviders = map[string]string{...}
knownKeyProviders == { << AliasSgxV0, ValueSgxV0 >>, << AliasNone, ValueNone >> }

\* if knownKeyProvider, ok := knownKeyProviders[mrKeyProvider]; ok {...}
ResolveKeyProvider(name) ==
    IF \E e \in knownKeyProviders : e[1] = name
    THEN (CHOOSE e \in knownKeyProviders : e[1] = name)[2]
    ELSE name

\* The prefix left in place.
TrimPrefix0xNever(s) == s

\* strings.TrimPrefix(mrKeyProvider, "0x")
TrimPrefix0x(s) ==
    IF Len(s) >= 2 /\ s[1] = "0" /\ s[2] = "x" THEN SubSeq(s, 3, Len(s)) ELSE s

\* encoding/hex: the value of a hexadecimal digit, either case.
HexDigits ==
    [ c \in { "0", "1", "2", "3", "4", "5", "6", "7", "8", "9" } |->
        CHOOSE n \in 0..9 : ToString(n) = c ]
    @@ ( "a" :> 10 @@ "b" :> 11 @@ "c" :> 12 @@ "d" :> 13 @@ "e" :> 14 @@ "f" :> 15 )
    @@ ( "A" :> 10 @@ "B" :> 11 @@ "C" :> 12 @@ "D" :> 13 @@ "E" :> 14 @@ "F" :> 15 )

\* hex.DecodeString: fails on an odd length or on a character that is no
\* hexadecimal digit; otherwise one byte for every two digits.
HexDecodeFails(s) ==
    Len(s) % 2 = 1 \/ \E i \in 1..Len(s) : s[i] \notin DOMAIN HexDigits
HexDecodeString(s) ==
    [ i \in 1..(Len(s) \div 2) |-> 16 * HexDigits[s[2 * i - 1]] + HexDigits[s[2 * i]] ]

\* sha256.New() ... h.Sum(nil), and hex.EncodeToString of a digest.
Sum256(h) == Digest("sha256", h)
HexEncodeToString(d) == Digest("hex", << d >>)

\* h.Write(m.MRTD); h.Write(m.RTMR0); h.Write(m.RTMR1); h.Write(m.RTMR2);
\* h.Write(mrKeyProviderBytes)
AggregatedWrites(m, keyBytes) ==
    HashWrite(HashWrite(HashWrite(HashWrite(HashWrite(<< >>,
        m.MRTD), m.RTMR0), m.RTMR1), m.RTMR2), Raw(keyBytes))

\* h.Write(m.MRTD); h.Write(m.RTMR1); h.Write(m.RTMR2)
ImageWrites(m) == HashWrite(HashWrite(HashWrite(<< >>, m.MRTD), m.RTMR1), m.RTMR2)

\* Register values: SHA-384 digests of different inputs.
OutRegister(n) == measureSha384(<< n >>)

\* The measurements main prints: the four registers of MeasureTdxQemu and
\* RTMR3, which is empty when there are no rootfs and docker inputs.
OutMeasurements ==
    { [ MRTD |-> OutRegister(a), RTMR0 |-> OutRegister(a + 1),
        RTMR1 |-> OutRegister(a + 2), RTMR2 |-> OutRegister(a + 3), RTMR3 |-> r ] :
          a \in { 0, 1 }, r \in { Raw(<< >>), OutRegister(9) } }

\* Values of the -mrkp flag: the aliases, their values with and without the
\* prefix and in upper case, other hex values, and strings that are no hex.
OutKeyProviders ==
    { AliasSgxV0, AliasNone, ValueSgxV0, ValueNone,
      TrimPrefix0x(ValueSgxV0), TrimPrefix0x(ValueNone),
      << "0", "x" >> \o
          << "4", "8", "8", "8", "A", "D", "B", "0", "2", "6", "F", "F", "9", "1", "C", "1",
        "3", "2", "0", "C", "4", "F", "5", "4", "4", "A", "9", "F", "5", "D", "9", "E",
        "0", "5", "6", "1", "E", "1", "3", "F", "C", "6", "4", "9", "4", "7", "A", "1",
        "0", "A", "A", "1", "5", "5", "6", "D", "0", "0", "7", "1", "B", "2", "C", "C" >>,
      << "0", "a", "F", "f" >>, << "0", "x", "0", "a", "F", "f" >>,
      << "0", "X", "0", "a" >>, << "0", "x", "0", "x", "0", "a" >>,
      << "s", "g", "x", "-", "v", "1" >>, << "a", "b", "c" >>, << >> }

OutInit ==
    /\ LogIdle /\ MrtdIdle /\ AcpiIdle /\ HobIdle /\ RunIdle /\ KernIdle
    /\ ParseIdle
    /\ mrkpFlag \in OutKeyProviders
    /\ mrKeyProvider = mrkpFlag
    /\ outMeasurements \in OutMeasurements
    /\ mrKeyProviderBytes = << >>
    /\ outH = << >>
    /\ MrAggregated = << >>
    /\ MrImage = << >>
    /\ outPc = "alias"

\* main: if the mrKeyProvider is in the knownKeyProviders, replace it with
\* the value.
OutResolveKeyProvider ==
    /\ outPc = "alias"
    /\ mrKeyProvider' = ResolveKeyProvider(mrKeyProvider)
    /\ outPc' = "trim"
    /\ UNCHANGED <<mrkpFlag, outMeasurements, mrKeyProviderBytes, outH,
                   MrAggregated, MrImage>>
    /\ UNCHANGED notOutVars

\* CalculateMrAggregated: strip "0x" prefix if present.
OutTrimPrefix ==
    /\ outPc = "trim"
    /\ mrKeyProvider' = TrimPrefix0x(mrKeyProvider)
    /\ outPc' = "decode"
    /\ UNCHANGED <<mrkpFlag, outMeasurements, mrKeyProviderBytes, outH,
                   MrAggregated, MrImage>>
    /\ UNCHANGED notOutVars

\* mrKeyProviderBytes, err := hex.DecodeString(mrKeyProvider); panic on err.
OutDecodeKeyProvider ==
    /\ outPc = "decode"
    /\ IF HexDecodeFails(mrKeyProvider)
       THEN outPc' = "panic" /\ UNCHANGED mrKeyProviderBytes
       ELSE /\ mrKeyProviderBytes' = HexDecodeString(mrKeyProvider)
            /\ outPc' = "aggregated"
    /\ UNCHANGED <<mrkpFlag, mrKeyProvider, outMeasurements, outH, MrAggregated,
                   MrImage>>
    /\ UNCHANGED notOutVars

\* The five writes and return hex.EncodeToString(h.Sum(nil)).
OutAggregated ==
    /\ outPc = "aggregated"
    /\ outH' = AggregatedWrites(outMeasurements, mrKeyProviderBytes)
    /\ MrAggregated' = HexEncodeToString(Sum256(outH'))
    /\ outPc' = "image"
    /\ UNCHANGED <<mrkpFlag, mrKeyProvider, outMeasurements, mrKeyProviderBytes,
                   MrImage>>
    /\ UNCHANGED notOutVars

\* CalculateMrImage: three writes and return hex.EncodeToString(h.Sum(nil)).
OutImage ==
    /\ outPc = "image"
    /\ outH' = ImageWrites(outMeasurements)
    /\ MrImage' = HexEncodeToString(Sum256(outH'))
    /\ outPc' = "done"
    /\ UNCHANGED <<mrkpFlag, mrKeyProvider, outMeasurements, mrKeyProviderBytes,
                   MrAggregated>>
    /\ UNCHANGED notOutVars

OutNext ==
    \/ OutResolveKeyProvider
    \/ OutTrimPrefix
    \/ OutDecodeKeyProvider
    \/ OutAggregated
    \/ OutImage

SpecOutput == OutInit /\ [][OutNext]_vars

---------------------------------------------------------------------------
(* Properties of the composite digests                                     *)

\* The stream a hasher holds after the given parts were written: empty
\* parts leave no trace.
PartsWritten(parts) == SelectSeq(parts, LAMBDA c : c # Raw(<< >>))
HexOfSha256(parts) == Digest("hex", << Digest("sha256", PartsWritten(parts)) >>)

\* C17: mr_aggregated is hex(SHA256(MRTD || RTMR0 || RTMR1 || RTMR2 ||
\* [RTMR3] || mr_key_provider)) and mr_image is hex(SHA256(MRTD || RTMR1 ||
\* RTMR2 || [RTMR3])), RTMR3 being part of both whenever it is present.
C17_CompositeDigests ==
    outPc = "done" =>
        /\ MrAggregated
             = HexOfSha256(<< outMeasurements.MRTD, outMeasurements.RTMR0,
                              outMeasurements.RTMR1, outMeasurements.RTMR2,
                              outMeasurements.RTMR3, Raw(mrKeyProviderBytes) >>)
        /\ MrImage
             = HexOfSha256(<< outMeasurements.MRTD, outMeasurements.RTMR1,
                              outMeasurements.RTMR2, outMeasurements.RTMR3 >>)

\* The 32 bytes 4888adb0...b2cc and 3369c4d3...0b8c.
SgxV0Bytes ==
    << 72, 136, 173, 176, 38, 255, 145, 193, 50, 12, 79, 84, 74, 159, 93, 158,
       5, 97, 225, 63, 198, 73, 71, 161, 10, 161, 85, 109, 0, 113, 178, 204 >>
NoneBytes ==
    << 51, 105, 196, 211, 43, 159, 19, 32, 235, 186, 92, 233, 137, 42, 40, 49,
       39, 183, 233, 110, 29, 81, 29, 127, 41, 46, 93, 158, 210, 193, 11, 140 >>

\* The three ways of naming a known key provider.
FormsOf(alias, value) == { alias, value, SubSeq(value, 3, Len(value)) }
KeyProviderDecoded == outPc \in { "aggregated", "image", "done", "panic" }

\* C18: the alias, its value with the "0x" prefix and its value without the
\* prefix all decode, to the same 32 bytes, and mr_aggregated is the digest
\* over the registers and those bytes, so it is the same for the three; a
\* name that is no alias goes to the decoder as it was given.
C18_KeyProviderForms ==
    /\ ( KeyProviderDecoded /\ mrkpFlag \in FormsOf(AliasSgxV0, ValueSgxV0) )
          => outPc # "panic" /\ mrKeyProviderBytes = SgxV0Bytes
    /\ ( KeyProviderDecoded /\ mrkpFlag \in FormsOf(AliasNone, ValueNone) )
          => outPc # "panic" /\ mrKeyProviderBytes = NoneBytes
    /\ outPc \in { "image", "done" }
          => MrAggregated
               = HexOfSha256(<< outMeasurements.MRTD, outMeasurements.RTMR0,
                                outMeasurements.RTMR1, outMeasurements.RTMR2,
                                Raw(mrKeyProviderBytes) >>)
    /\ ( outPc = "trim" /\ mrkpFlag \notin { AliasSgxV0, AliasNone } )
          => mrKeyProvider = mrkpFlag
    /\ ( KeyProviderDecoded /\ mrkpFlag = << "0", "a", "F", "f" >> )
          => outPc # "panic" /\ mrKeyProviderBytes = << 10, 255 >>

\* Both digests printed for -mrkp sgx-v0.
C18_Witness ==
    /\ outPc = "done" /\ mrkpFlag = << "s", "g", "x", "-", "v", "0" >>
    /\ mrKeyProviderBytes = SgxV0Bytes

\* The 32 bytes of a section entry and the TDVF metadata descriptor.
SectionBytes(s) ==
    s.dataOffset \o s.rawDataSize \o s.memoryAddress \o s.memoryDataSize
    \o s.secType \o s.attributes
RECURSIVE SectionsBytesFrom(_, _)
SectionsBytesFrom(secs, k) ==
    IF k > Len(secs) THEN << >> ELSE SectionBytes(secs[k]) \o SectionsBytesFrom(secs, k + 1)
DescriptorBytes(secs, version) ==
    tdvfSignature \o LE(16 + 32 * Len(secs), 4) \o LE(version, 4) \o LE(Len(secs), 4)
    \o SectionsBytesFrom(secs, 1)

\* An entry of the OVMF table: data, length of the entire entry, GUID.
OvmfEntry(data, guid) == data \o LE(Len(data) + 18, 2) \o encodeGUID(guid)

\* A firmware image: content, the metadata descriptor, the OVMF table (the
\* TDVF metadata entry, one other entry, the footer) and the 32 bytes after
\* the footer.  The metadata entry holds the distance of the descriptor from
\* the end of the image.
Firmware(content, secs, version, footer) ==
    LET desc == DescriptorBytes(secs, version)
        other == OvmfEntry(<< 1, 2, 3, 4 >>, efiGlobalVariableGUID)
        back == Len(desc) + 22 + Len(other) + 18 + bytesAfterTableFooter
    IN  content \o desc
        \o OvmfEntry(LE(back, 4), tdxMetadataOffsetGUID) \o other
        \o LE(22 + Len(other) + 18, 2) \o encodeGUID(footer)
        \o Zeros(bytesAfterTableFooter)

\* Firmware images MeasureTdxQemu is run on.
RunFirmwares ==
    { Firmware(FwImage,
               << MkSection(0, 1, B8(0, 0, 65480, 16384), 1),
                  HobSection(tdvfSectionTdHob, B8(0, 0, 128, 36864)),
                  MkSection(0, 1, B8(0, 0, 129, 0), 2) >>,
               tdxMetadataVersion, tableFooterGUID),
      Firmware(FwImage, << MkSection(0, FwPages, B8(0, 0, 65480, 16384), 1) >>,
               tdxMetadataVersion, tableFooterGUID),
      Firmware(FwImage, << MkSection(0, 1, B8(0, 0, 65480, 16384), 1) >>,
               tdxMetadataVersion, efiGlobalVariableGUID),
      Firmware(FwImage, << MkSection(4 * FwPages * pageSize, 1, B8(0, 0, 128, 0), 1) >>,
               tdxMetadataVersion, tableFooterGUID) }

---------------------------------------------------------------------------
(* parseTdvfMetadata, statement by statement                               *)

\* An entry of the OVMF table with the given length field.
OvmfEntryLen(data, entryLen, guid) == data \o LE(entryLen, 2) \o encodeGUID(guid)

\* A firmware image that ends with the given table entries, the footer with
\* the given table length and GUID, and the 32 bytes after the footer.
FirmwareTables(content, entries, tablesLen, footer) ==
    content \o entries \o LE(tablesLen, 2) \o encodeGUID(footer)
    \o Zeros(bytesAfterTableFooter)

\* A descriptor with one section, and the metadata entry that points at a
\* descriptor lying `after` bytes before the end of the entry.
ParseDescriptorBytes ==
    DescriptorBytes(<< MkSection(0, 1, B8(0, 0, 65480, 16384), 1) >>, tdxMetadataVersion)
ParseMetadataEntry(after) ==
    OvmfEntry(LE(Len(ParseDescriptorBytes) + 22 + after + 18 + bytesAfterTableFooter, 4),
              tdxMetadataOffsetGUID)

\* Length fields of an entry that is not the metadata entry: zero, shorter
\* than the entry, the entry's length (22), longer, and past the table.
ParseEntryLens == { 0, 1, 5, 17, 18, 22, 23, 40, 1000 }

\* Sections that fail one of the four sanity checks: a memory address that
\* is not page-aligned, a memory size below the raw size, a memory size that
\* is not page-aligned, and MR_EXTEND with a raw size below the memory size.
ParseBadSections ==
    { tdvfSection(LE(0, 4), LE(pageSize, 4), B8(0, 0, 128, 1), LE(pageSize, 8),
                  LE(0, 4), LE(attributeMrExtend, 4)),
      tdvfSection(LE(0, 4), LE(2 * pageSize, 4), B8(0, 0, 128, 0), LE(pageSize, 8),
                  LE(0, 4), LE(0, 4)),
      tdvfSection(LE(0, 4), LE(0, 4), B8(0, 0, 128, 0), LE(pageSize + 256, 8),
                  LE(0, 4), LE(0, 4)),
      tdvfSection(LE(0, 4), LE(256, 4), B8(0, 0, 128, 0), LE(pageSize, 8),
                  LE(0, 4), LE(attributeMrExtend, 4)) }

\* Firmware images whose descriptor holds no section, sections that pass the
\* checks with a raw size below and equal to the memory size, and a section
\* that fails a check in the first or in the second place.
ParseSectionFirmwares ==
    { Firmware(Zeros(16), secs, tdxMetadataVersion, tableFooterGUID) :
        secs \in { << >>,
                   << MkSection(0, 1, B8(0, 0, 128, 0), attributePageAug),
                      MkSection(0, 1, B8(0, 0, 129, 0), attributeMrExtend) >> }
                 \cup { << bad, MkSection(0, 1, B8(0, 0, 128, 0), attributeMrExtend) >> :
                            bad \in ParseBadSections }
                 \cup { << MkSection(0, 1, B8(0, 0, 128, 0), attributeMrExtend), bad >> :
                            bad \in ParseBadSections } }

\* Firmware images: too short for a footer; with a wrong footer GUID; with a
\* table length of zero, past the start of the image, or up to it; with the
\* metadata entry last, followed by one or two other entries of every length
\* field, or missing; with a metadata entry of length zero; with sections
\* that pass and that fail the sanity checks; and the images of the whole
\* measurement.
ParseFirmwares ==
    { Zeros(n) : n \in { 0, 10, 47, 48, 49, 50 } }
    \cup { FirmwareTables(ParseDescriptorBytes, ParseMetadataEntry(0), n, g) :
               n \in { 0, 17, 40, 48, 49, 1000 },
               g \in { tableFooterGUID, efiGlobalVariableGUID } }
    \cup { FirmwareTables(ParseDescriptorBytes,
                          ParseMetadataEntry(22)
                          \o OvmfEntryLen(<< 1, 2, 3, 4 >>, n, efiGlobalVariableGUID),
                          62, tableFooterGUID) : n \in ParseEntryLens }
    \cup { FirmwareTables(ParseDescriptorBytes,
                          ParseMetadataEntry(44)
                          \o OvmfEntry(<< 5, 6, 7, 8 >>, efiImageSecurityDatabaseGUID)
                          \o OvmfEntryLen(<< 1, 2, 3, 4 >>, n, efiGlobalVariableGUID),
                          84, tableFooterGUID) : n \in ParseEntryLens }
    \cup { FirmwareTables(ParseDescriptorBytes,
                          OvmfEntry(<< 5, 6, 7, 8 >>, efiImageSecurityDatabaseGUID)
                          \o OvmfEntryLen(<< 1, 2, 3, 4 >>, n, efiGlobalVariableGUID),
                          62, tableFooterGUID) : n \in { 0, 22 } }
    \cup { FirmwareTables(ParseDescriptorBytes,
                          OvmfEntryLen(<< >>, 0, tdxMetadataOffsetGUID),
                          36, tableFooterGUID) }
    \cup ParseSectionFirmwares
    \cup RunFirmwares

ParseInit ==
    /\ LogIdle /\ MrtdIdle /\ AcpiIdle /\ HobIdle /\ RunIdle /\ KernIdle /\ OutIdle
    /\ parseFw \in ParseFirmwares
    /\ parseBase = 0
    /\ parseOffset = 0
    /\ parseData = << >>
    /\ parsePc = "footer"
    /\ parseOut = << >>

\* offset := len(fw) - bytesAfterTableFooter; read the footer GUID and the
\* table length (a slice below index 0 panics); check them; tables := ...;
\* offset = len(tables).
ParseFooter ==
    /\ parsePc = "footer"
    /\ LET offset == Len(parseFw) - bytesAfterTableFooter
           tablesLen == FwUint16(parseFw, offset - 16 - 2)
       IN  IF offset - 16 - 2 < 0
           THEN /\ parsePc' = "panic"
                /\ parseOut' = ParseOutcome("panic", "", << >>)
                /\ UNCHANGED <<parseBase, parseOffset>>
           ELSE IF \/ FwSlice(parseFw, offset - 16, offset) # encodeGUID(tableFooterGUID)
                   \/ tablesLen = 0
                   \/ tablesLen > offset - 16 - 2
           THEN /\ parsePc' = "error"
                /\ parseOut' = ParseOutcome("error", "malformed OVMF table footer", << >>)
                /\ UNCHANGED <<parseBase, parseOffset>>
           ELSE /\ parseBase' = offset - 16 - 2 - tablesLen
                /\ parseOffset' = tablesLen
                /\ parsePc' = "walk"
                /\ UNCHANGED parseOut
    /\ UNCHANGED <<parseFw, parseData>>
    /\ UNCHANGED notParseVars

\* The head of the loop that finds the TDVF metadata table, starting at the
\* end: fewer than 18 bytes left means that the table is not there.
ParseWalk ==
    /\ parsePc = "walk"
    /\ IF parseOffset < 18
       THEN /\ parsePc' = "error"
            /\ parseOut' = ParseOutcome("error", "missing TDVF metadata in firmware", << >>)
       ELSE /\ parsePc' = "entry"
            /\ UNCHANGED parseOut
    /\ UNCHANGED <<parseFw, parseBase, parseOffset, parseData>>
    /\ UNCHANGED notParseVars

\* The body of the loop: read the entry that ends at offset, reject it when
\* it is longer than what is left, stop at the metadata entry, and otherwise
\* step back by the entry's length and go round again.
ParseEntry ==
    /\ parsePc = "entry"
    /\ LET guid == FwSlice(parseFw, parseBase + parseOffset - 16, parseBase + parseOffset)
           entryLen == FwUint16(parseFw, parseBase + parseOffset - 16 - 2)
       IN  IF parseOffset < 18 + entryLen
           THEN /\ parsePc' = "error"
                /\ parseOut' = ParseOutcome("error", "malformed OVMF table in firmware", << >>)
                /\ UNCHANGED <<parseOffset, parseData>>
           ELSE IF guid = encodeGUID(tdxMetadataOffsetGUID)
           THEN /\ parseData' = << parseBase + parseOffset - 18 - entryLen,
                                   parseBase + parseOffset - 18 >>
                /\ parsePc' = "descriptor"
                /\ UNCHANGED <<parseOffset, parseOut>>
           ELSE /\ parseOffset' = parseOffset - entryLen
                /\ parsePc' = "walk"
                /\ UNCHANGED <<parseData, parseOut>>
    /\ UNCHANGED <<parseFw, parseBase>>
    /\ UNCHANGED notParseVars

\* Extract and parse the TDVF metadata descriptor and the section entries.
ParseMetadata ==
    /\ parsePc = "descriptor"
    /\ LET r == ParseDescriptor(parseFw, parseData[1], parseData[2])
       IN  parseOut' = r /\ parsePc' = r.status
    /\ UNCHANGED <<parseFw, parseBase, parseOffset, parseData>>
    /\ UNCHANGED notParseVars

ParseNext ==
    \/ ParseFooter
    \/ ParseWalk
    \/ ParseEntry
    \/ ParseMetadata

SpecParse == ParseInit /\ [][ParseNext]_vars

\* The Go runtime keeps running the goroutine that parses: the footer check
\* and every iteration of the loop are eventually executed.
SpecParseFair == SpecParse /\ WF_vars(ParseFooter \/ ParseWalk \/ ParseEntry)

---------------------------------------------------------------------------
(* Properties of parseTdvfMetadata                                         *)

\* The footer of the firmware the call was given: absent, or its GUID
\* (16 bytes before the last 32) is not 96b582de-1fb2-45f7-baea-a366c55a082d,
\* or its table length is 0 or more than the bytes before the footer.
GivenTablesLen == parseFw[Len(parseFw) - 49] + 256 * parseFw[Len(parseFw) - 48]
FooterAbsentOrInvalid ==
    \/ Len(parseFw) < 50
    \/ SubSeq(parseFw, Len(parseFw) - 47, Len(parseFw) - 32)
         # << 222, 130, 181, 150, 178, 31, 247, 69,
              186, 234, 163, 102, 197, 90, 8, 45 >>
    \/ GivenTablesLen = 0
    \/ GivenTablesLen > Len(parseFw) - 50

\* C19: for every firmware whose footer is absent or invalid, the empty
\* firmware included, the call returns the error "malformed OVMF table
\* footer".
C19_MalformedFooter ==
    ( parsePc # "footer" /\ FooterAbsentOrInvalid ) =>
        /\ parsePc = "error"
        /\ parseOut = [ status |-> "error", msg |-> "malformed OVMF table footer",
                        sections |-> << >> ]

\* C20: the backward walk ends: the call leaves the loop at the metadata
\* entry or with a failure.
C20_WalkTerminates == <>(parsePc \notin { "footer", "walk", "entry" })

\* The descriptor of the firmware the call was given, found through the
\* metadata entry (data is fw[parseData[1]:parseData[2]], its last 4 bytes
\* the distance of the descriptor from the end of the image): its signature
\* and version, its section count and its k-th section entry, field by field.
GivenUint32(at) ==
    parseFw[at + 1] + 256 * parseFw[at + 2] + 65536 * parseFw[at + 3]
    + 16777216 * parseFw[at + 4]
GivenDescOffset == Len(parseFw) - GivenUint32(parseData[2] - 4)
GivenDescAccepted ==
    /\ SubSeq(parseFw, GivenDescOffset + 1, GivenDescOffset + 4) = << 84, 68, 86, 70 >>
    /\ GivenUint32(GivenDescOffset + 8) = 1
GivenSectionCount == GivenUint32(GivenDescOffset + 12)
GivenSection(k) ==
    LET at == GivenDescOffset + 16 + 32 * (k - 1)
    IN  [ dataOffset     |-> SubSeq(parseFw, at + 1, at + 4),
          rawDataSize    |-> SubSeq(parseFw, at + 5, at + 8),
          memoryAddress  |-> SubSeq(parseFw, at + 9, at + 16),
          memoryDataSize |-> SubSeq(parseFw, at + 17, at + 24),
          secType        |-> SubSeq(parseFw, at + 25, at + 28),
          attributes     |-> SubSeq(parseFw, at + 29, at + 32) ]

\* A multiple of 4096: the low 12 bits are clear.
PageAligned(x) == x[1] = 0 /\ x[2] % 16 = 0
\* The four conditions on a section.
SectionWellFormed(s) ==
    /\ PageAligned(s.memoryAddress)
    /\ WLe(s.rawDataSize \o Zeros(4), s.memoryDataSize)
    /\ PageAligned(s.memoryDataSize)
    /\ ( s.attributes[1] % 2 = 1 =>
           /\ WLe(s.memoryDataSize, s.rawDataSize \o Zeros(4))
           /\ s.rawDataSize \o Zeros(4) = s.memoryDataSize )

\* The call went through the descriptor and returned.
ParseReturnedFromDescriptor ==
    parsePc \in { "ok", "error" } /\ parseData # << >> /\ GivenDescAccepted

\* C21: every section a successful parse returns has a page-aligned memory
\* address, a memory size that is page-aligned and at least the raw size, and
\* with MR_EXTEND a raw size equal to the memory size; the sections returned
\* are the descriptor's, in its order and as many as it counts; a descriptor
\* with a section that breaks one of the conditions makes the parse fail.
C21_SectionInvariants ==
    /\ parsePc = "ok" =>
         /\ \A k \in 1..Len(parseOut.sections) : SectionWellFormed(parseOut.sections[k])
         /\ Len(parseOut.sections) = GivenSectionCount
         /\ \A k \in 1..GivenSectionCount : parseOut.sections[k] = GivenSection(k)
    /\ ( /\ ParseReturnedFromDescriptor
         /\ \E k \in 1..GivenSectionCount : ~SectionWellFormed(GivenSection(k)) ) =>
         /\ parsePc = "error"
         /\ parseOut.sections = << >>

\* A parse that returned three sections, one of them with MR_EXTEND.
C21_Witness ==
    /\ parsePc = "ok"
    /\ Len(parseOut.sections) = 3
    /\ \E k \in 1..3 : parseOut.sections[k].attributes[1] % 2 = 1

\* A parse that failed on the second section of its descriptor, the first
\* being well-formed.
C21_FailsOnSecond ==
    /\ ParseReturnedFromDescriptor
    /\ parsePc = "error"
    /\ GivenSectionCount = 2
    /\ SectionWellFormed(GivenSection(1))
    /\ ~SectionWellFormed(GivenSection(2))

---------------------------------------------------------------------------
(* MeasureTdxQemu: the whole measurement                                   *)

\* "Calling EFI Application from Boot Option"
StrCallingEfiApplication ==
    << 67, 97, 108, 108, 105, 110, 103, 32, 69, 70, 73, 32, 65, 112, 112,
       108, 105, 99, 97, 116, 105, 111, 110, 32, 102, 114, 111, 109, 32, 66,
       111, 111, 116, 32, 79, 112, 116, 105, 111, 110 >>
\* "Exit Boot Services Invocation"
StrExitBootServicesInvocation ==
    << 69, 120, 105, 116, 32, 66, 111, 111, 116, 32, 83, 101, 114, 118, 105,
       99, 101, 115, 32, 73, 110, 118, 111, 99, 97, 116, 105, 111, 110 >>
\* "Exit Boot Services Returned with Success"
StrExitBootServicesReturned ==
    << 69, 120, 105, 116, 32, 66, 111, 111, 116, 32, 83, 101, 114, 118, 105,
       99, 101, 115, 32, 82, 101, 116, 117, 114, 110, 101, 100, 32, 119, 105,
       116, 104, 32, 83, 117, 99, 99, 101, 115, 115 >>

RunKernels ==
    { Kernel(minKernelLength, 527, 1, 64, << 77, 90 >>),
      Kernel(minKernelLength, 511, 0, 0, << 77, 90 >>),
      Kernel(minKernelLength, 527, 1, 64, << 127, 69 >>),
      Kernel(minKernelLength - 1, 527, 1, 64, << 77, 90 >>) }

RunMemorySizes == { LE(1, 8), LE(2048, 8), LE(2816, 8) }
RunCpuCounts == { 0, 1, 3 }
\* Values of the -cpu flag: the counts above, and the same plus 256.
RunCpuFlags == RunCpuCounts \cup { 256 + n : n \in RunCpuCounts }
RunInitrds == { << >>, << 1, 2, 3, 4 >> }
RunCmdlines == { << >>, << 113, 117, 105, 101, 116 >> }
\* -tcbver: "currently only 6 and 7 are supported".
TcbVersions == { 6, 7 }

NoMeasurements == [ MRTD |-> << >>, RTMR0 |-> << >>, RTMR1 |-> << >>, RTMR2 |-> << >> ]

\* The RTMR0 log with the ACPI tables digest before the loader digest.
Rtmr0EventsTablesFirst(hob, acpi) ==
    << hob,
       Raw(cfvImageHash),
       measureTdxEfiVariable(efiGlobalVariableGUID, NameSecureBoot),
       measureTdxEfiVariable(efiGlobalVariableGUID, NamePK),
       measureTdxEfiVariable(efiGlobalVariableGUID, NameKEK),
       measureTdxEfiVariable(efiImageSecurityDatabaseGUID, Namedb),
       measureTdxEfiVariable(efiImageSecurityDatabaseGUID, Namedbx),
       measureSha384(<< 0, 0, 0, 0 >>),
       acpi.tables,
       acpi.rsdp,
       acpi.loader,
       measureSha384(<< 0, 0 >>),
       Raw(boot000Hash) >>

\* rtmr0Log := append([][]byte{}, tdHobHash, cfvImageHash, ..., boot000Hash);
\* the trailing separator of TCB_SVN 6 is commented out.
Rtmr0Events(hob, acpi) ==
    << hob,
       Raw(cfvImageHash),
       measureTdxEfiVariable(efiGlobalVariableGUID, NameSecureBoot),
       measureTdxEfiVariable(efiGlobalVariableGUID, NamePK),
       measureTdxEfiVariable(efiGlobalVariableGUID, NameKEK),
       measureTdxEfiVariable(efiImageSecurityDatabaseGUID, Namedb),
       measureTdxEfiVariable(efiImageSecurityDatabaseGUID, Namedbx),
       measureSha384(<< 0, 0, 0, 0 >>),
       acpi.loader,
       acpi.rsdp,
       acpi.tables,
       measureSha384(<< 0, 0 >>),
       Raw(boot000Hash) >>

Rtmr1Events(kernelAuthHash) ==
    << kernelAuthHash,
       measureSha384(StrCallingEfiApplication),
       measureSha384(<< 0, 0, 0, 0 >>),
       measureSha384(StrExitBootServicesInvocation),
       measureSha384(StrExitBootServicesReturned) >>

\* The RTMR2 log with the initrd digest before the command line digest.
Rtmr2EventsInitrdFirst(cmdline, initrd) ==
    << measureSha384(initrd), measureTdxKernelCmdline(cmdline) >>

Rtmr2Events(cmdline, initrd) ==
    << measureTdxKernelCmdline(cmdline), measureSha384(initrd) >>

\* The variant MeasureTdxQemu passes to computeMrtd: the constant
\* mrtdVariantSinglePass, whatever the TCB version.
MrtdVariantOf(ver) == mrtdVariantSinglePass

RunInit ==
    /\ LogIdle /\ HobIdle /\ RestIdle
    /\ acpiGen = 0 /\ acpiPc = "idle" /\ tpl = << >> /\ acpiTabs = << >>
    /\ rsdp = << >> /\ ldr = << >> /\ acpiCmd = 0
    /\ sections = << >> /\ mrtdVariant = 0 /\ mrtdSec = 0 /\ mrtdPage = 0
    /\ mrtdPc = "idle" /\ mrtdH = << >> /\ mrtdOut = << >>
    /\ fw \in RunFirmwares
    /\ kernelData \in RunKernels
    /\ initrdData \in RunInitrds
    /\ memorySize \in RunMemorySizes
    /\ cpuCountUint \in RunCpuFlags
    /\ cpuCount = 0
    /\ kernelCmdline \in RunCmdlines
    /\ tcbver \in TcbVersions
    /\ runPc = "main"
    /\ tdHobHash = << >>
    /\ acpiHashes = << >>
    /\ rtmr0Log = << >>
    /\ measurements = NoMeasurements

\* uint8(x) of a Go uint.
Uint8Of(x) == x % 256

\* internal.MeasureTdxQemu(fwData, ..., uint64(memorySize), uint8(cpuCountUint),
\* ...): the -cpu flag becomes the cpuCount parameter.
RunMain ==
    /\ runPc = "main"
    /\ cpuCount' = Uint8Of(cpuCountUint)
    /\ runPc' = "parse"
    /\ UNCHANGED mrtdVars
    /\ UNCHANGED <<memorySize, acpiGen, acpiPc, tpl, acpiTabs, rsdp, ldr, acpiCmd>>
    /\ UNCHANGED <<kernelData, initrdData, kernelCmdline, tcbver, cpuCountUint, tdHobHash,
                   acpiHashes, rtmr0Log, measurements>>
    /\ UNCHANGED <<logVars, hobVars, restVars>>

\* tdvfMeta, err := parseTdvfMetadata(fwData)
RunParse ==
    /\ runPc = "parse"
    /\ LET p == parseTdvfMetadata(fw)
       IN  /\ runPc' = IF p.status = "ok" THEN "mrtd" ELSE p.status
           /\ sections' = p.sections
    /\ UNCHANGED <<fw, mrtdVariant, mrtdSec, mrtdPage, mrtdPc, mrtdH, mrtdOut>>
    /\ UNCHANGED <<memorySize, cpuCount, acpiGen, acpiPc, tpl, acpiTabs, rsdp, ldr, acpiCmd>>
    /\ UNCHANGED <<kernelData, initrdData, kernelCmdline, tcbver, cpuCountUint, tdHobHash,
                   acpiHashes, rtmr0Log, measurements>>
    /\ UNCHANGED <<logVars, hobVars, restVars>>

\* measurements.MRTD = tdvfMeta.computeMrtd(fwData, mrtdVariantSinglePass)
RunMrtd ==
    /\ runPc = "mrtd"
    /\ mrtdVariant' = MrtdVariantOf(tcbver)
    /\ IF computeMrtdPanics(MrtdVariantOf(tcbver))
       THEN runPc' = "panic" /\ UNCHANGED <<mrtdH, measurements>>
       ELSE /\ mrtdH' = computeMrtdWrites(MrtdVariantOf(tcbver))
            /\ measurements' = [ measurements EXCEPT !.MRTD = MrtdDigest(mrtdH', fw) ]
            /\ runPc' = "tdhob"
    /\ UNCHANGED <<fw, sections, mrtdSec, mrtdPage, mrtdPc, mrtdOut>>
    /\ UNCHANGED <<memorySize, cpuCount, acpiGen, acpiPc, tpl, acpiTabs, rsdp, ldr, acpiCmd>>
    /\ UNCHANGED <<kernelData, initrdData, kernelCmdline, tcbver, cpuCountUint, tdHobHash,
                   acpiHashes, rtmr0Log>>
    /\ UNCHANGED <<logVars, hobVars, restVars>>

\* tdHobHash := measureTdxQemuTdHob(memorySize, tdvfMeta)
RunTdHob ==
    /\ runPc = "tdhob"
    /\ tdHobHash' = measureTdxQemuTdHob(memorySize, MetaOf(sections))
    /\ runPc' = "acpi"
    /\ UNCHANGED mrtdVars
    /\ UNCHANGED <<memorySize, cpuCount, acpiGen, acpiPc, tpl, acpiTabs, rsdp, ldr, acpiCmd>>
    /\ UNCHANGED <<kernelData, initrdData, kernelCmdline, tcbver, cpuCountUint, acpiHashes,
                   rtmr0Log, measurements>>
    /\ UNCHANGED <<logVars, hobVars, restVars>>

\* acpiTablesHash, acpiRsdpHash, acpiLoaderHash, err := measureTdxQemuAcpiTables(...)
RunAcpi ==
    /\ runPc = "acpi"
    /\ LET a == measureTdxQemuAcpiTables(memorySize, cpuCount)
       IN  IF a.status = "ok"
           THEN acpiHashes' = a /\ runPc' = "rtmr0"
           ELSE runPc' = a.status /\ UNCHANGED acpiHashes
    /\ UNCHANGED mrtdVars
    /\ UNCHANGED <<memorySize, cpuCount, acpiGen, acpiPc, tpl, acpiTabs, rsdp, ldr, acpiCmd>>
    /\ UNCHANGED <<kernelData, initrdData, kernelCmdline, tcbver, cpuCountUint, tdHobHash,
                   rtmr0Log, measurements>>
    /\ UNCHANGED <<logVars, hobVars, restVars>>

\* rtmr0Log := append(...); measurements.RTMR0 = measureLog(0, rtmr0Log)
RunRtmr0 ==
    /\ runPc = "rtmr0"
    /\ rtmr0Log' = Rtmr0Events(tdHobHash, acpiHashes)
    /\ measurements' = [ measurements EXCEPT !.RTMR0 = measureLog(rtmr0Log') ]
    /\ runPc' = "rtmr1"
    /\ UNCHANGED mrtdVars
    /\ UNCHANGED <<memorySize, cpuCount, acpiGen, acpiPc, tpl, acpiTabs, rsdp, ldr, acpiCmd>>
    /\ UNCHANGED <<kernelData, initrdData, kernelCmdline, tcbver, cpuCountUint, tdHobHash, acpiHashes>>
    /\ UNCHANGED <<logVars, hobVars, restVars>>

\* kernelAuthHash, err2 := measureTdxQemuKernelImage(...); RTMR1
RunRtmr1 ==
    /\ runPc = "rtmr1"
    /\ LET k == measureTdxQemuKernelImage(kernelData, LE(Len(initrdData), 4),
                                          memorySize, LE(acpiDataSize, 4))
       IN  IF k.status = "ok"
           THEN /\ measurements' =
                      [ measurements EXCEPT !.RTMR1 = measureLog(Rtmr1Events(k.hash)) ]
                /\ runPc' = "rtmr2"
           ELSE runPc' = "error" /\ UNCHANGED measurements
    /\ UNCHANGED mrtdVars
    /\ UNCHANGED <<memorySize, cpuCount, acpiGen, acpiPc, tpl, acpiTabs, rsdp, ldr, acpiCmd>>
    /\ UNCHANGED <<kernelData, initrdData, kernelCmdline, tcbver, cpuCountUint, tdHobHash,
                   acpiHashes, rtmr0Log>>
    /\ UNCHANGED <<logVars, hobVars, restVars>>

\* RTMR2; return measurements, nil
RunRtmr2 ==
    /\ runPc = "rtmr2"
    /\ measurements' =
          [ measurements EXCEPT
              !.RTMR2 = measureLog(Rtmr2Events(kernelCmdline, initrdData)) ]
    /\ runPc' = "done"
    /\ UNCHANGED mrtdVars
    /\ UNCHANGED <<memorySize, cpuCount, acpiGen, acpiPc, tpl, acpiTabs, rsdp, ldr, acpiCmd>>
    /\ UNCHANGED <<kernelData, initrdData, kernelCmdline, tcbver, cpuCountUint, tdHobHash,
                   acpiHashes, rtmr0Log>>
    /\ UNCHANGED <<logVars, hobVars, restVars>>

Next ==
    \/ RunMain
    \/ RunParse
    \/ RunMrtd
    \/ RunTdHob
    \/ RunAcpi
    \/ RunRtmr0
    \/ RunRtmr1
    \/ RunRtmr2

Spec == RunInit /\ [][Next]_vars

---------------------------------------------------------------------------
(* Properties of MeasureTdxQemu                                            *)

\* SHA-384 of a byte string, and the encoded vendor GUIDs written out:
\* 8BE4DF61-93CA-11D2-AA0D-00E098032B8C and D719B2CB-3D3A-4596-A3BC-DAD00E67656F.
Sha384Of(b) == Digest("sha384", << Raw(b) >>)
GlobalVariableGuidBytes ==
    << 97, 223, 228, 139, 202, 147, 210, 17, 170, 13, 0, 224, 152, 3, 43, 140 >>
SecurityDatabaseGuidBytes ==
    << 203, 178, 25, 215, 58, 61, 150, 69, 163, 188, 218, 208, 14, 103, 101, 111 >>

RECURSIVE WideChars(_)
WideChars(name) ==
    IF name = << >> THEN << >> ELSE << Head(name), 0 >> \o WideChars(Tail(name))

\* The EFI variable event: GUID, name length and data length (0) as 64-bit
\* little-endian numbers, the name in UTF-16LE.
EfiVariableEvent(guidBytes, name) ==
    Sha384Of(guidBytes \o << Len(name), 0, 0, 0, 0, 0, 0, 0 >> \o Zeros(8)
             \o WideChars(name))

\* The thirteen RTMR0 events of a run, in order.
ExpectedRtmr0Events ==
    LET g == GenerateTablesQemu2(memorySize, cpuCount)
    IN  << Sha384Of(TdHobBuffer(memorySize, MetaOf(sections))),
           Raw(cfvImageHash),
           EfiVariableEvent(GlobalVariableGuidBytes,
                            << 83, 101, 99, 117, 114, 101, 66, 111, 111, 116 >>),
           EfiVariableEvent(GlobalVariableGuidBytes, << 80, 75 >>),
           EfiVariableEvent(GlobalVariableGuidBytes, << 75, 69, 75 >>),
           EfiVariableEvent(SecurityDatabaseGuidBytes, << 100, 98 >>),
           EfiVariableEvent(SecurityDatabaseGuidBytes, << 100, 98, 120 >>),
           Sha384Of(<< 0, 0, 0, 0 >>),
           Sha384Of(g.loader),
           Sha384Of(g.rsdp),
           Sha384Of(g.tables),
           Sha384Of(<< 0, 0 >>),
           Raw(boot000Hash) >>

C3_TcbverSelectsVariant ==
    runPc = "done" =>
        /\ tcbver = 6 =>
              /\ mrtdVariant = mrtdVariantTwoPass
              /\ mrtdH = computeMrtdWrites(mrtdVariantTwoPass)
              /\ Len(rtmr0Log) = 14
              /\ rtmr0Log[14] = Sha384Of(<< 0, 0, 0, 0 >>)
        /\ tcbver = 7 =>
              /\ mrtdVariant = mrtdVariantSinglePass
              /\ mrtdH = computeMrtdWrites(mrtdVariantSinglePass)
              /\ Len(rtmr0Log) = 13

\* The run got past the ACPI tables: it used a template.
RunUsedTemplate == runPc \in { "rtmr0", "rtmr1", "rtmr2", "done" }

\* C22: when the catalog holds no template for the CPU count given with the
\* -cpu flag, the run fails at the ACPI tables and produces no measurement:
\* a run uses a template only when there is one for the count requested.
C22_TemplateOfRequestedCount ==
    /\ ( runPc # "main" /\ ~HasTemplate(cpuCountUint) ) =>
           /\ ~RunUsedTemplate
           /\ acpiHashes = << >>
           /\ measurements.RTMR0 = << >>
    /\ RunUsedTemplate =>
           acpiHashes.tables =
               Sha384Of(PatchDsdt(Template(cpuCountUint),
                                  findAcpiTable(Template(cpuCountUint), SigDSDT).length,
                                  memorySize))

\* The kernel digest of a run: the authenticode hash of the kernel patched
\* for an initrd of len(initrd) bytes and an ACPI data size of 0x28000.
RunKernelHash ==
    measureTdxQemuKernelImage(kernelData, LE(Len(initrdData), 4), memorySize,
                              B4(2, 32768)).hash

\* The five RTMR1 events and the two RTMR2 events, written out.
ExpectedRtmr1Events ==
    << RunKernelHash,
       Sha384Of(<< 67, 97, 108, 108, 105, 110, 103, 32, 69, 70, 73, 32, 65, 112,
                   112, 108, 105, 99, 97, 116, 105, 111, 110, 32, 102, 114, 111,
                   109, 32, 66, 111, 111, 116, 32, 79, 112, 116, 105, 111, 110 >>),
       Sha384Of(<< 0, 0, 0, 0 >>),
       Sha384Of(<< 69, 120, 105, 116, 32, 66, 111, 111, 116, 32, 83, 101, 114,
                   118, 105, 99, 101, 115, 32, 73, 110, 118, 111, 99, 97, 116,
                   105, 111, 110 >>),
       Sha384Of(<< 69, 120, 105, 116, 32, 66, 111, 111, 116, 32, 83, 101, 114,
                   118, 105, 99, 101, 115, 32, 82, 101, 116, 117, 114, 110, 101,
                   100, 32, 119, 105, 116, 104, 32, 83, 117, 99, 99, 101, 115,
                   115 >>) >>
ExpectedRtmr2Events ==
    << Sha384Of(WideChars(kernelCmdline) \o << 0, 0 >>),
       \* the digest of no bytes at all when there is no initrd
       IF initrdData = << >> THEN Digest("sha384", << >>) ELSE Sha384Of(initrdData) >>

\* C24: on every successful run RTMR1 is the fold of the kernel's
\* authenticode hash, "Calling EFI Application from Boot Option", the
\* separator 00 00 00 00, "Exit Boot Services Invocation" and "Exit Boot
\* Services Returned with Success", and RTMR2 is the fold of the command line
\* (with a NUL, in UTF-16LE) and the initrd, each list in this order.
C24_Rtmr1Rtmr2Events ==
    runPc = "done" =>
        /\ measurements.RTMR1 = ChainH(ExpectedRtmr1Events, 5)
        /\ measurements.RTMR2 = ChainH(ExpectedRtmr2Events, 2)

\* A successful run with a command line and an initrd.
C24_Witness ==
    /\ runPc = "done"
    /\ kernelCmdline # << >> /\ initrdData # << >>
    /\ measurements.RTMR2 = ChainH(ExpectedRtmr2Events, 2)

\* The payload of the k-th RTMR0 event, the bytes that were hashed.
Rtmr0Payload(k) == rtmr0Log[k].input[1].bytes
\* [vendor GUID, character count, 0, name in UTF-16LE]
IsEfiVariablePayload(p, guidBytes, name) ==
    /\ Len(p) = 32 + 2 * Len(name)
    /\ SubSeq(p, 1, 16) = guidBytes
    /\ SubSeq(p, 17, 24) = << Len(name), 0, 0, 0, 0, 0, 0, 0 >>
    /\ SubSeq(p, 25, 32) = << 0, 0, 0, 0, 0, 0, 0, 0 >>
    /\ \A i \in 1..Len(name) : p[32 + 2 * i - 1] = name[i] /\ p[32 + 2 * i] = 0
\* The fields of a GUID as they are written, and the 16 bytes with the first
\* three fields reversed.
FieldsReversed(g) ==
    << g[1][4], g[1][3], g[1][2], g[1][1], g[2][2], g[2][1], g[3][2], g[3][1] >>
    \o g[4] \o g[5]

\* C25: the EFI variable events of RTMR0 hash the 16 bytes of the vendor GUID,
\* the character count of the name and 0 as 64-bit little-endian numbers and
\* the name in UTF-16LE; a GUID is encoded in 16 bytes, the first three fields
\* byte-reversed and the last two as written
\* (8BE4DF61-93CA-11D2-AA0D-00E098032B8C is 61 DF E4 8B CA 93 D2 11 AA 0D 00
\* E0 98 03 2B 8C).
C25_EfiVariablePayload ==
    Len(rtmr0Log) >= 7 =>
        /\ IsEfiVariablePayload(Rtmr0Payload(3), GlobalVariableGuidBytes,
                                << 83, 101, 99, 117, 114, 101, 66, 111, 111, 116 >>)
        /\ IsEfiVariablePayload(Rtmr0Payload(4), GlobalVariableGuidBytes, << 80, 75 >>)
        /\ IsEfiVariablePayload(Rtmr0Payload(5), GlobalVariableGuidBytes, << 75, 69, 75 >>)
        /\ IsEfiVariablePayload(Rtmr0Payload(6), SecurityDatabaseGuidBytes, << 100, 98 >>)
        /\ IsEfiVariablePayload(Rtmr0Payload(7), SecurityDatabaseGuidBytes,
                                << 100, 98, 120 >>)
        /\ \A g \in { efiGlobalVariableGUID, efiImageSecurityDatabaseGUID,
                      tdxMetadataOffsetGUID, tableFooterGUID } :
              Len(encodeGUID(g)) = 16 /\ encodeGUID(g) = FieldsReversed(g)
        /\ encodeGUID(<< << 139, 228, 223, 97 >>, << 147, 202 >>, << 17, 210 >>,
                         << 170, 13 >>, << 0, 224, 152, 3, 43, 140 >> >>)
             = << 97, 223, 228, 139, 202, 147, 210, 17, 170, 13, 0, 224, 152, 3, 43, 140 >>

\* The RTMR0 log of a run, with the five EFI variable events in it.
C25_Witness ==
    /\ runPc = "done" /\ Len(rtmr0Log) = 13
    /\ SubSeq(Rtmr0Payload(6), 1, 4) = << 203, 178, 25, 215 >>

\* parseTdvfMetadata accepted the firmware and MeasureTdxQemu went on to
\* computeMrtd.
RunParseAccepted ==
    runPc \notin { "main", "parse" } /\ parseTdvfMetadata(fw).status = "ok"

\* dataOffset + memoryDataSize <= len(fw), over the integers.
SectionInsideFirmware(s) ==
    WLe(WAdd(WResize(s.dataOffset, 9), WResize(s.memoryDataSize, 9)), LE(Len(fw), 9))

\* computeMrtd panicked: the run stopped on a panic with no MRTD recorded.
RunMrtdPanicked == runPc = "panic" /\ measurements = NoMeasurements

\* C30: for a firmware that parseTdvfMetadata accepted, every section with
\* MR_EXTEND has dataOffset + memoryDataSize <= len(fw), and the
\* computation of the MRTD that follows does not panic on a read out of
\* range.
C30_ChunksInsideFirmware ==
    RunParseAccepted =>
        /\ \A si \in 1..Len(sections) :
              HasAttr(sections[si], attributeMrExtend) =>
                  SectionInsideFirmware(sections[si])
        /\ ~RunMrtdPanicked

===========================================================================
